---- MODULE Spec2Model ----
(***************************************************************************)
(* Financial Literacy Coach: the budget analysis engine                    *)
(* (src/src/services/budget.py) and the rule-based question answering      *)
(* engine (src/src/services/knowledge.py).                                  *)
(*                                                                         *)
(* Money is modelled as integers.  Python computes the percentages in      *)
(* double precision; the model computes them as exact rationals            *)
(* [num, den] in lowest terms, so that its comparisons are those of the    *)
(* real-number values.                                                     *)
(***************************************************************************)
EXTENDS Integers, Sequences, FiniteSets, TLC

VARIABLES
    budget,        \* the argument of analyze_budget: a Budget object or None
    analysis,      \* the dict returned by analyze_budget, NotRun before the call
    screen,        \* what display_budget_recommendations has written, in order
    category,      \* the argument of map_to_general_category
    general,       \* its result, NoResult before the call
    question,      \* the argument of process_question, a sequence of characters
    dispatch,      \* the call under way on the glossary: the answer function
                   \* process_question called, or a function called directly
    knowledge_base, \* the glossary, a dict of term name -> term entry
    result,        \* what the call returned, NotRun before it returns
    db             \* the tables of the database: sequences of rows, in rowid order

vars == <<budget, analysis, screen, category, general, question, dispatch,
          knowledge_base, result, db>>

\* Python's None, and the value of a result before its function has run;
\* records, so that they compare with the records they stand in for
None == [none |-> TRUE]
NotRun == [not_run |-> TRUE]
NoResult == "<no result>"

\* the tables init_db creates, empty
init_db == [budgets |-> <<>>, expenses |-> <<>>, income_sources |-> <<>>, goals |-> <<>>]

(***************************************************************************)
(* Bounds of the model.                                                    *)
(***************************************************************************)
MaxLines == 2      \* expense lines of a budget
MaxRecs == 3       \* recommendations of an analysis handed to the display
MaxPhrases == 3    \* phrases a question is put together from
MaxTerms == 2      \* terms of a glossary
MaxAmount == 2     \* the amount an expense line is let grow to
MaxGoals == 2      \* rows of the goals table

(***************************************************************************)
(* Exact rational arithmetic.                                              *)
(***************************************************************************)
Abs(n) == IF n < 0 THEN -n ELSE n

RECURSIVE GCD(_, _)
GCD(a, b) == IF b = 0 THEN a ELSE GCD(b, a % b)

\* n / d in lowest terms, d > 0
Frac(n, d) ==
    LET g == GCD(Abs(n), d)
    IN  [num |-> n \div g, den |-> d \div g]

FromInt(n) == [num |-> n, den |-> 1]
RatSub(a, b) == Frac(a.num * b.den - b.num * a.den, a.den * b.den)
RatMul(a, b) == Frac(a.num * b.num, a.den * b.den)
RatLess(a, b) == a.num * b.den < b.num * a.den

(***************************************************************************)
(* config.py                                                               *)
(***************************************************************************)
BUDGET_THRESHOLDS ==
    [Housing |-> 30, Food |-> 15, Transportation |-> 10, Education |-> 20,
     Entertainment |-> 5, Savings |-> 10, Other |-> 10]

\* dict.get(key, default)
ThresholdGet(thresholds, key, default) ==
    IF key \in DOMAIN thresholds THEN thresholds[key] ELSE default

(***************************************************************************)
(* map_to_general_category                                                 *)
(***************************************************************************)
category_mapping ==
    [c \in {"Housing", "Rent", "Mortgage", "Dorm"} |-> "Housing"] @@
    [c \in {"Groceries", "Dining Out", "Meal Plan"} |-> "Food"] @@
    [c \in {"Textbooks", "School Supplies", "Tuition"} |-> "Education"] @@
    [c \in {"Bus", "Car Payment", "Gas", "Parking", "Transportation"}
        |-> "Transportation"] @@
    [c \in {"Entertainment", "Streaming", "Movies", "Games"} |-> "Entertainment"] @@
    [c \in {"Clothing", "Personal Care", "Phone & Internet", "Insurance",
            "Subscriptions", "Health & Wellness", "Miscellaneous",
            "Loan Payments"} |-> "Other"]

MapDefaultsToInput(c) ==
    IF c \in DOMAIN category_mapping THEN category_mapping[c] ELSE c

map_to_general_category(c) ==
    IF c \in DOMAIN category_mapping THEN category_mapping[c] ELSE "Other"

(***************************************************************************)
(* analyze_budget, step by step                                            *)
(***************************************************************************)
RECURSIVE SumAmounts(_)
SumAmounts(expenses) ==
    IF expenses = <<>> THEN 0
    ELSE Head(expenses).amount + SumAmounts(Tail(expenses))

RemainingIgnoresSavings(total_income, total_expenses, savings) ==
    total_income - total_expenses

Remaining(total_income, total_expenses, savings) ==
    total_income - total_expenses - savings

RatioFloorsIncome(amount, total_income) ==
    Frac(amount * 100, IF total_income > 0 THEN total_income ELSE 1)

\* amount / total_income * 100, 0 when there is no income
Ratio(amount, total_income) ==
    IF total_income > 0 THEN Frac(amount * 100, total_income) ELSE FromInt(0)

\* A Python dict keeps insertion order: a dict is a sequence of
\* [key, value] entries with pairwise distinct keys.
Keys(dict) == {dict[i].key : i \in 1..Len(dict)}
Lookup(dict, k) == (CHOOSE i \in 1..Len(dict) : dict[i].key = k)

\* grouped_expenses[k] += amount, or grouped_expenses[k] = amount
AddTo(dict, k, amount) ==
    IF k \in Keys(dict)
    THEN [dict EXCEPT ![Lookup(dict, k)].value = @ + amount]
    ELSE Append(dict, [key |-> k, value |-> amount])

RECURSIVE GroupExpenses(_, _)
GroupExpenses(expenses, grouped) ==
    IF expenses = <<>> THEN grouped
    ELSE GroupExpenses(Tail(expenses),
            AddTo(grouped, map_to_general_category(Head(expenses).category),
                  Head(expenses).amount))

ExpenseRatios(grouped, total_income) ==
    [i \in 1..Len(grouped) |->
        [key |-> grouped[i].key, value |-> Ratio(grouped[i].value, total_income)]]

Concern(cat, ratio, threshold, amount, total_income) ==
    [category |-> cat, current |-> ratio, threshold |-> threshold,
     excess |-> RatSub(ratio, FromInt(threshold)), amount |-> amount,
     saving_potential |->
        RatMul(RatSub(ratio, FromInt(threshold)), Frac(total_income, 100))]

RECURSIVE CategoryConcernsAtThreshold(_, _, _, _, _)
CategoryConcernsAtThreshold(ratios, grouped, total_income, thresholds, i) ==
    IF i > Len(ratios) THEN <<>>
    ELSE LET cat == ratios[i].key
             ratio == ratios[i].value
             threshold == ThresholdGet(thresholds, cat, 10)
             rest == CategoryConcernsAtThreshold(ratios, grouped, total_income,
                                                 thresholds, i + 1)
         IN  IF ~RatLess(ratio, FromInt(threshold))
             THEN <<Concern(cat, ratio, threshold, grouped[i].value, total_income)>>
                  \o rest
             ELSE rest

\* the loop over expense_ratios.items()
RECURSIVE CategoryConcerns(_, _, _, _, _)
CategoryConcerns(ratios, grouped, total_income, thresholds, i) ==
    IF i > Len(ratios) THEN <<>>
    ELSE LET cat == ratios[i].key
             ratio == ratios[i].value
             threshold == ThresholdGet(thresholds, cat, 10)
             rest == CategoryConcerns(ratios, grouped, total_income, thresholds, i + 1)
         IN  IF RatLess(FromInt(threshold), ratio)
             THEN <<Concern(cat, ratio, threshold, grouped[i].value, total_income)>>
                  \o rest
             ELSE rest

SavingsConcern(savings_ratio, savings, thresholds) ==
    IF RatLess(savings_ratio, FromInt(ThresholdGet(thresholds, "Savings", 10)))
    THEN <<[category |-> "Savings", current |-> savings_ratio,
            threshold |-> ThresholdGet(thresholds, "Savings", 10),
            excess |-> FromInt(0), amount |-> savings,
            saving_potential |-> FromInt(0)]>>
    ELSE <<>>

\* A message is the f-string's template and the values it interpolates.
BalanceRecommendation(remaining) ==
    IF remaining < 0
    THEN [type |-> "warning", message |-> <<"deficit", Abs(remaining)>>,
          priority |-> "high"]
    ELSE IF remaining = 0
    THEN [type |-> "info", message |-> <<"balanced">>, priority |-> "medium"]
    ELSE [type |-> "success", message |-> <<"surplus", remaining>>,
          priority |-> "low"]

SavingsRecommendationConfigured(savings_ratio, thresholds) ==
    IF RatLess(savings_ratio, FromInt(5))
    THEN [type |-> "warning", message |-> <<"savings_low", savings_ratio>>,
          priority |-> "high"]
    ELSE IF RatLess(savings_ratio, FromInt(ThresholdGet(thresholds, "Savings", 10)))
    THEN [type |-> "info", message |-> <<"savings_mid", savings_ratio>>,
          priority |-> "medium"]
    ELSE [type |-> "success", message |-> <<"savings_ok", savings_ratio>>,
          priority |-> "low"]

SavingsRecommendationHighAtFive(savings_ratio, thresholds) ==
    IF ~RatLess(FromInt(5), savings_ratio)
    THEN [type |-> "warning", message |-> <<"savings_low", savings_ratio>>,
          priority |-> "high"]
    ELSE IF RatLess(savings_ratio, FromInt(10))
    THEN [type |-> "info", message |-> <<"savings_mid", savings_ratio>>,
          priority |-> "medium"]
    ELSE [type |-> "success", message |-> <<"savings_ok", savings_ratio>>,
          priority |-> "low"]

\* the table is a parameter only so that the bands can be seen not to read it
SavingsRecommendation(savings_ratio, thresholds) ==
    IF RatLess(savings_ratio, FromInt(5))
    THEN [type |-> "warning", message |-> <<"savings_low", savings_ratio>>,
          priority |-> "high"]
    ELSE IF RatLess(savings_ratio, FromInt(10))
    THEN [type |-> "info", message |-> <<"savings_mid", savings_ratio>>,
          priority |-> "medium"]
    ELSE [type |-> "success", message |-> <<"savings_ok", savings_ratio>>,
          priority |-> "low"]

ConcernWarning(concern) ==
    [type |-> "warning",
     message |-> <<"overspend", concern.category, concern.current,
                   concern.threshold, concern.saving_potential>>,
     priority |-> "medium"]

RECURSIVE ConcernRecommendationsAll(_)
ConcernRecommendationsAll(concerns) ==
    IF concerns = <<>> THEN <<>>
    ELSE <<ConcernWarning(Head(concerns))>> \o ConcernRecommendationsAll(Tail(concerns))

RECURSIVE ConcernRecommendations(_)
ConcernRecommendations(concerns) ==
    IF concerns = <<>> THEN <<>>
    ELSE (IF Head(concerns).category # "Savings"
          THEN <<ConcernWarning(Head(concerns))>> ELSE <<>>)
         \o ConcernRecommendations(Tail(concerns))

StudentTips ==
    << [type |-> "tip", message |-> <<"student_discounts">>, priority |-> "low"],
       [type |-> "tip", message |-> <<"campus_facilities">>, priority |-> "low"] >>

NoBudgetAnalysisZeroed ==
    [total_income |-> 0, total_expenses |-> 0, savings |-> 0, remaining |-> 0,
     balance |-> FALSE,
     recommendations |->
        << [type |-> "error", message |-> <<"no_budget_data">>,
            priority |-> "high"] >>]

NoBudgetAnalysis ==
    [balance |-> FALSE,
     recommendations |->
        << [type |-> "error", message |-> <<"no_budget_data">>,
            priority |-> "high"] >>]

\* analyze_budget with the threshold table as a parameter
AnalyzeWith(b, thresholds) ==
    IF b = None THEN NoBudgetAnalysis
    ELSE
    LET total_expenses == SumAmounts(b.expenses)
        total_income == b.income
        savings == b.savings
        remaining == Remaining(total_income, total_expenses, savings)
        savings_ratio == Ratio(savings, total_income)
        grouped_expenses == GroupExpenses(b.expenses, <<>>)
        expense_ratios == ExpenseRatios(grouped_expenses, total_income)
        concerns ==
            CategoryConcerns(expense_ratios, grouped_expenses, total_income,
                             thresholds, 1)
            \o SavingsConcern(savings_ratio, savings, thresholds)
        recommendations ==
            <<BalanceRecommendation(remaining)>>
            \o <<SavingsRecommendation(savings_ratio, thresholds)>>
            \o ConcernRecommendations(concerns)
            \o StudentTips
    IN  [total_income |-> total_income,
         total_expenses |-> total_expenses,
         savings |-> savings,
         remaining |-> remaining,
         savings_ratio |-> savings_ratio,
         expense_ratios |-> expense_ratios,
         grouped_expenses |-> grouped_expenses,
         concerns |-> concerns,
         balance |-> (remaining >= 0),
         recommendations |-> recommendations]

analyze_budget(b) == AnalyzeWith(b, BUDGET_THRESHOLDS)

(***************************************************************************)
(* display_budget_recommendations: what it writes, in order.  An item is   *)
(* the display function called and the text handed to it.                  *)
(***************************************************************************)
PrioritiesLowFirst == <<"low", "medium", "high">>

priorities == <<"high", "medium", "low">>

Header(priority) ==
    [out |-> "print",
     text |-> IF priority = "high" THEN <<"Important Actions:">>
              ELSE IF priority = "medium" THEN <<"Consider These Changes:">>
              ELSE <<"Helpful Tips:">>]

RenderRec(rec) ==
    IF rec.type = "warning" THEN [out |-> "display_error", text |-> rec.message]
    ELSE IF rec.type = "success" THEN [out |-> "display_success", text |-> rec.message]
    ELSE IF rec.type = "info" THEN [out |-> "display_info", text |-> rec.message]
    ELSE [out |-> "print", text |-> <<"bullet">> \o rec.message]

\* the inner loop over the recommendations, for one priority
RECURSIVE RenderPriority(_, _, _, _)
RenderPriority(recs, priority, i, shown_priority_header) ==
    IF i > Len(recs) THEN <<>>
    ELSE IF recs[i].priority = priority
    THEN (IF ~shown_priority_header THEN <<Header(priority)>> ELSE <<>>)
         \o <<RenderRec(recs[i])>>
         \o RenderPriority(recs, priority, i + 1, TRUE)
    ELSE RenderPriority(recs, priority, i + 1, shown_priority_header)

RECURSIVE RenderAll(_, _)
RenderAll(recs, k) ==
    IF k > Len(priorities) THEN <<>>
    ELSE RenderPriority(recs, priorities[k], 1, FALSE) \o RenderAll(recs, k + 1)

display_budget_recommendations(a) ==
    IF a = None \/ "recommendations" \notin DOMAIN a
    THEN <<[out |-> "display_error", text |-> <<"No recommendations available.">>]>>
    ELSE IF a.recommendations = <<>>
    THEN <<[out |-> "display_error", text |-> <<"No recommendations available.">>]>>
    ELSE <<[out |-> "display_title", text |-> <<"RECOMMENDATIONS">>]>>
         \o RenderAll(a.recommendations, 1)

(***************************************************************************)
(* knowledge.py: process_question.  Text is a sequence of one-character    *)
(* strings.  The regular expressions are matched as re.search matches      *)
(* them: leftmost start, alternatives in order, greedy quantifiers that    *)
(* give back one character at a time.                                      *)
(***************************************************************************)
LowerLetters ==
    <<"a", "b", "c", "d", "e", "f", "g", "h", "i", "j", "k", "l", "m",
      "n", "o", "p", "q", "r", "s", "t", "u", "v", "w", "x", "y", "z">>
UpperLetters ==
    <<"A", "B", "C", "D", "E", "F", "G", "H", "I", "J", "K", "L", "M",
      "N", "O", "P", "Q", "R", "S", "T", "U", "V", "W", "X", "Y", "Z">>
Whitespace == {" ", "\t", "\n", "\r"}

LowerSet == {LowerLetters[i] : i \in DOMAIN LowerLetters}
UpperSet == {UpperLetters[i] : i \in DOMAIN UpperLetters}
LowerOf == [c \in UpperSet |->
              LowerLetters[CHOOSE i \in DOMAIN UpperLetters : UpperLetters[i] = c]]

\* str.lower()
Lower(text) ==
    [i \in 1..Len(text) |-> IF text[i] \in UpperSet THEN LowerOf[text[i]] ELSE text[i]]

\* str.strip()
RECURSIVE Strip(_)
Strip(text) ==
    IF text = <<>> THEN text
    ELSE IF Head(text) \in Whitespace THEN Strip(Tail(text))
    ELSE IF text[Len(text)] \in Whitespace THEN Strip(SubSeq(text, 1, Len(text) - 1))
    ELSE text

\* the character class [a-z\s]
InClass(c) == c \in LowerSet \/ c \in Whitespace

\* the literal lit stands in text at position i
LitAt(text, i, lit) ==
    /\ i + Len(lit) - 1 <= Len(text)
    /\ \A k \in 1..Len(lit) : text[i + k - 1] = lit[k]

\* the number of characters of the class from position i on
RECURSIVE RunLength(_, _)
RunLength(text, i) ==
    IF i > Len(text) \/ ~InClass(text[i]) THEN 0 ELSE 1 + RunLength(text, i + 1)

\* the elements of a pattern
Lit(chars) == [t |-> "lit", chars |-> chars]
Alt(options) == [t |-> "alt", options |-> options, optional |-> FALSE]   \* (?:x|y)
Opt(options) == [t |-> "alt", options |-> options, optional |-> TRUE]    \* (?:x|y)?
Cap == [t |-> "cap"]                                                   \* ([a-z\s]+)

\* a match object: whether the pattern matched, and the span of each group
NoMatch == [ok |-> FALSE, groups |-> <<>>]

\* match.group(n)
Group(text, match, n) == SubSeq(text, match.groups[n][1], match.groups[n][2])

RECURSIVE MatchFrom(_, _, _, _, _)
RECURSIVE TryOptions(_, _, _, _, _, _)
RECURSIVE TryLengths(_, _, _, _, _, _)

\* elements k.. of pat match text from position i on; the first way the
\* backtracking search finds
MatchFrom(pat, k, text, i, groups) ==
    IF k > Len(pat) THEN [ok |-> TRUE, groups |-> groups]
    ELSE IF pat[k].t = "lit"
    THEN IF LitAt(text, i, pat[k].chars)
         THEN MatchFrom(pat, k + 1, text, i + Len(pat[k].chars), groups)
         ELSE NoMatch
    ELSE IF pat[k].t = "alt" THEN TryOptions(pat, k, text, i, groups, 1)
    ELSE TryLengths(pat, k, text, i, groups, RunLength(text, i))

TryOptions(pat, k, text, i, groups, j) ==
    IF j > Len(pat[k].options)
    THEN IF pat[k].optional THEN MatchFrom(pat, k + 1, text, i, groups) ELSE NoMatch
    ELSE IF LitAt(text, i, pat[k].options[j])
    THEN LET r == MatchFrom(pat, k + 1, text, i + Len(pat[k].options[j]), groups)
         IN  IF r.ok THEN r ELSE TryOptions(pat, k, text, i, groups, j + 1)
    ELSE TryOptions(pat, k, text, i, groups, j + 1)

TryLengths(pat, k, text, i, groups, n) ==
    IF n < 1 THEN NoMatch
    ELSE LET r == MatchFrom(pat, k + 1, text, i + n, Append(groups, <<i, i + n - 1>>))
         IN  IF r.ok THEN r ELSE TryLengths(pat, k, text, i, groups, n - 1)

\* re.search(pattern, text)
RECURSIVE SearchFrom(_, _, _)
SearchFrom(pat, text, i) ==
    IF i > Len(text) + 1 THEN NoMatch
    ELSE LET r == MatchFrom(pat, 1, text, i, <<>>)
         IN  IF r.ok THEN r ELSE SearchFrom(pat, text, i + 1)

Search(pat, text) == SearchFrom(pat, text, 1)

Articles == <<<<"a", " ">>, <<"a", "n", " ">>, <<"t", "h", "e", " ">>>>

definition_patterns ==
    << <<Lit(<<"w", "h", "a", "t", " ", "i", "s", " ">>), Opt(Articles), Cap, Opt(<<<<"?">>>>)>>,
       <<Lit(<<"d", "e", "f", "i", "n", "e", " ">>), Opt(Articles), Cap>>,
       <<Lit(<<"e", "x", "p", "l", "a", "i", "n", " ">>), Opt(Articles), Cap>>,
       <<Lit(<<"t", "e", "l", "l", " ", "m", "e", " ", "a", "b", "o", "u", "t", " ">>), Opt(Articles), Cap>> >>

comparison_patterns ==
    << <<Alt(<<<<"w", "h", "a", "t", " ", "i", "s">>, <<"w", "h", "a", "t", "'", "s">>>>),
         Lit(<<" ", "t", "h", "e", " ", "d", "i", "f", "f", "e", "r", "e", "n", "c", "e", " ", "b", "e", "t", "w", "e", "e", "n", " ">>), Cap,
         Lit(<<" ", "a", "n", "d", " ">>), Cap>>,
       <<Lit(<<"c", "o", "m", "p", "a", "r", "e", " ">>), Cap, Lit(<<" ">>),
         Alt(<<<<"t", "o">>, <<"a", "n", "d">>, <<"w", "i", "t", "h">>>>), Lit(<<" ">>), Cap>>,
       <<Cap, Lit(<<" ", "v", "s">>), Opt(<<<<".">>>>), Lit(<<" ">>), Cap>> >>

how_to_patterns ==
    << <<Lit(<<"h", "o", "w", " ", "d", "o", " ", "I", " ">>), Cap>>,
       <<Lit(<<"h", "o", "w", " ", "t", "o", " ">>), Cap>>,
       <<Lit(<<"h", "o", "w", " ", "c", "a", "n", " ", "I", " ">>), Cap>>,
       <<Lit(<<"w", "a", "y", "s", " ", "t", "o", " ">>), Cap>> >>

recommendation_patterns ==
    << <<Lit(<<"s", "h", "o", "u", "l", "d", " ", "I", " ">>), Cap>>,
       <<Lit(<<"i", "s", " ", "i", "t", " ">>),
         Alt(<<<<"g", "o", "o", "d">>, <<"b", "e", "t", "t", "e", "r">>, <<"b", "e", "s", "t">>, <<"w", "i", "s", "e">>, <<"a", "d", "v", "i", "s", "a", "b", "l", "e">>>>),
         Lit(<<" ", "t", "o", " ">>), Cap>>,
       <<Lit(<<"w", "h", "a", "t", "'", "s", " ", "t", "h", "e", " ", "b", "e", "s", "t", " ", "w", "a", "y", " ", "t", "o", " ">>), Cap>> >>

calculation_patterns ==
    << <<Lit(<<"h", "o", "w", " ">>), Alt(<<<<"m", "u", "c", "h">>, <<"m", "a", "n", "y">>>>), Lit(<<" ">>), Cap>>,
       <<Lit(<<"c", "a", "l", "c", "u", "l", "a", "t", "e", " ">>), Cap>>,
       <<Lit(<<"w", "h", "a", "t", " ", "p", "e", "r", "c", "e", "n", "t", "a", "g", "e", " ">>), Cap>> >>

\* for pattern in patterns: match = re.search(pattern, question_lower);
\* the first match, NoMatch when the loop ends without one
RECURSIVE FirstMatch(_, _, _)
FirstMatch(patterns, text, k) ==
    IF k > Len(patterns) THEN NoMatch
    ELSE LET r == Search(patterns[k], text)
         IN  IF r.ok THEN r ELSE FirstMatch(patterns, text, k + 1)

Call(handler, args) == [handler |-> handler, args |-> args]

ProcessQuestionHowToFirst(q) ==
    LET question_lower == Lower(q)
        d == FirstMatch(definition_patterns, question_lower, 1)
        h == FirstMatch(how_to_patterns, question_lower, 1)
    IN  IF h.ok THEN Call("answer_how_to_question", <<Strip(Group(question_lower, h, 1))>>)
        ELSE IF d.ok THEN Call("answer_definition_question", <<Strip(Group(question_lower, d, 1))>>)
        ELSE LET
        c == FirstMatch(comparison_patterns, question_lower, 1)
        r == FirstMatch(recommendation_patterns, question_lower, 1)
        m == FirstMatch(calculation_patterns, question_lower, 1)
    IN  IF c.ok THEN Call("answer_comparison_question",
                          <<Strip(Group(question_lower, c, 1)), Strip(Group(question_lower, c, 2))>>)
        ELSE IF r.ok THEN Call("answer_recommendation_question", <<Strip(Group(question_lower, r, 1))>>)
        ELSE IF m.ok THEN Call("answer_calculation_question", <<Strip(Group(question_lower, m, 1))>>)
        ELSE Call("answer_general_question", <<q>>)

\* process_question handing the lowercased question to the general answer
ProcessQuestionGeneralLowered(q) ==
    LET question_lower == Lower(q)
        d == FirstMatch(definition_patterns, question_lower, 1)
        c == FirstMatch(comparison_patterns, question_lower, 1)
        h == FirstMatch(how_to_patterns, question_lower, 1)
        r == FirstMatch(recommendation_patterns, question_lower, 1)
        m == FirstMatch(calculation_patterns, question_lower, 1)
    IN  IF d.ok THEN Call("answer_definition_question", <<Strip(Group(question_lower, d, 1))>>)
        ELSE IF c.ok THEN Call("answer_comparison_question",
                               <<Strip(Group(question_lower, c, 1)), Strip(Group(question_lower, c, 2))>>)
        ELSE IF h.ok THEN Call("answer_how_to_question", <<Strip(Group(question_lower, h, 1))>>)
        ELSE IF r.ok THEN Call("answer_recommendation_question", <<Strip(Group(question_lower, r, 1))>>)
        ELSE IF m.ok THEN Call("answer_calculation_question", <<Strip(Group(question_lower, m, 1))>>)
        ELSE Call("answer_general_question", <<question_lower>>)

\* process_question up to the call it returns the result of
process_question(q) ==
    LET question_lower == Lower(q)
        d == FirstMatch(definition_patterns, question_lower, 1)
        c == FirstMatch(comparison_patterns, question_lower, 1)
        h == FirstMatch(how_to_patterns, question_lower, 1)
        r == FirstMatch(recommendation_patterns, question_lower, 1)
        m == FirstMatch(calculation_patterns, question_lower, 1)
    IN  IF d.ok THEN Call("answer_definition_question", <<Strip(Group(question_lower, d, 1))>>)
        ELSE IF c.ok THEN Call("answer_comparison_question",
                               <<Strip(Group(question_lower, c, 1)), Strip(Group(question_lower, c, 2))>>)
        ELSE IF h.ok THEN Call("answer_how_to_question", <<Strip(Group(question_lower, h, 1))>>)
        ELSE IF r.ok THEN Call("answer_recommendation_question", <<Strip(Group(question_lower, r, 1))>>)
        ELSE IF m.ok THEN Call("answer_calculation_question", <<Strip(Group(question_lower, m, 1))>>)
        ELSE Call("answer_general_question", <<q>>)

(***************************************************************************)
(* The glossary and the answer functions.  The glossary is a dict of term  *)
(* name -> term entry in insertion order; a term entry is a record whose   *)
(* fields are the keys the entry has.  Names, aliases, definitions and the *)
(* other texts are sequences of characters.                                *)
(*                                                                         *)
(* An answer is an f-string: the literal text with {} where a value is     *)
(* substituted, and the substituted values in order.                       *)
(***************************************************************************)
\* None where the code holds a str or None: texts are sequences of single
\* characters, so this is no text
NoneStr == <<"None">>

\* needle in haystack, for two str
In(needle, haystack) ==
    \E i \in 1..(Len(haystack) - Len(needle) + 1) :
        SubSeq(haystack, i, i + Len(needle) - 1) = needle

\* key in info, info.get(key, default), knowledge_base[term]
Has(info, key) == key \in DOMAIN info
Get(info, key, default) == IF Has(info, key) THEN info[key] ELSE default
Item(dict, k) == dict[Lookup(dict, k)].value

Fmt(template, args) == [template |-> template, args |-> args]
\* answer += more
Plus(answer, more) ==
    Fmt(answer.template \o more.template, answer.args \o more.args)

\* if "student_context" in info: answer += f"\n\n{info['student_context']}"
WithStudentContext(answer, info) ==
    IF Has(info, "student_context")
    THEN Plus(answer, Fmt("\n\n{}", <<info.student_context>>))
    ELSE answer

\* any(phrase in alias.lower() for alias in info.get("aliases", []))
AnyAlias(phrase, info) ==
    LET aliases == Get(info, "aliases", <<>>)
    IN  \E a \in 1..Len(aliases) : In(phrase, Lower(aliases[a]))

\* the loop over the aliases of one term: one append for every alias that
\* holds the term, the loop never left
RECURSIVE AliasAppendsNoBreak(_, _, _, _)
AliasAppendsNoBreak(term, kb_term, aliases, a) ==
    IF a > Len(aliases) THEN <<>>
    ELSE (IF In(term, Lower(aliases[a])) THEN <<kb_term>> ELSE <<>>)
         \o AliasAppendsNoBreak(term, kb_term, aliases, a + 1)

RECURSIVE PartialMatchesNoBreak(_, _, _)
PartialMatchesNoBreak(term, kb, i) ==
    IF i > Len(kb) THEN <<>>
    ELSE (IF In(term, Lower(kb[i].key)) THEN <<kb[i].key>>
          ELSE AliasAppendsNoBreak(term, kb[i].key, Get(kb[i].value, "aliases", <<>>), 1))
         \o PartialMatchesNoBreak(term, kb, i + 1)

\* the partial matches of answer_definition_question, from entry i on: a
\* term is appended when its lowercased name holds the term, else when
\* one of its aliases does (break after the first)
RECURSIVE PartialMatches(_, _, _)
PartialMatches(term, kb, i) ==
    IF i > Len(kb) THEN <<>>
    ELSE (IF In(term, Lower(kb[i].key)) THEN <<kb[i].key>>
          ELSE IF AnyAlias(term, kb[i].value) THEN <<kb[i].key>>
          ELSE <<>>)
         \o PartialMatches(term, kb, i + 1)

\* for match in matches: answer += f"- {match}\n"
RECURSIVE MatchLines(_)
MatchLines(matches) ==
    IF matches = <<>> THEN Fmt("", <<>>)
    ELSE Plus(Fmt("- {}\n", <<Head(matches)>>), MatchLines(Tail(matches)))

answer_definition_question(term, kb) ==
    IF term \in Keys(kb)
    THEN LET info == Item(kb, term)
         IN  WithStudentContext(Fmt("{}", <<info.definition>>), info)
    ELSE LET matches == PartialMatches(term, kb, 1)
         IN  IF matches # <<>>
             THEN IF Len(matches) = 1
                  THEN LET info == Item(kb, matches[1])
                       IN  WithStudentContext(
                               Fmt("I found information about {}:\n\n{}",
                                   <<matches[1], info.definition>>), info)
                  ELSE Plus(Plus(Fmt("I found multiple terms related to '{}':\n", <<term>>),
                                 MatchLines(matches)),
                            Fmt("\nPlease ask about a specific term for more information.", <<>>))
             ELSE Fmt("I don't have specific information about '{}'. Please try another financial term or check the term glossary.",
                      <<term>>)

\* for kb_term in knowledge_base: if ...: return kb_term -- the position
\* of the first entry among those that pass the test, 0 when none does
First(hits) ==
    IF hits = {} THEN 0 ELSE CHOOSE i \in hits : \A j \in hits : i <= j

\* find_best_match with the two substring tiers before the alias tier
FindBestMatchSubstringFirst(term, kb) ==
    LET aliases(i) == Get(kb[i].value, "aliases", <<>>)
        t2 == First({i \in 1..Len(kb) : Lower(term) = Lower(kb[i].key)})
        t3 == First({i \in 1..Len(kb) :
                        \E a \in 1..Len(aliases(i)) : Lower(term) = Lower(aliases(i)[a])})
        t4 == First({i \in 1..Len(kb) : In(Lower(term), Lower(kb[i].key))})
        t5 == First({i \in 1..Len(kb) :
                        \E a \in 1..Len(aliases(i)) : In(Lower(term), Lower(aliases(i)[a]))})
    IN  IF term \in Keys(kb) THEN term
        ELSE IF t2 > 0 THEN kb[t2].key
        ELSE IF t4 > 0 THEN kb[t4].key
        ELSE IF t5 > 0 THEN kb[t5].key
        ELSE IF t3 > 0 THEN kb[t3].key
        ELSE NoneStr

find_best_match(term, kb) ==
    LET aliases(i) == Get(kb[i].value, "aliases", <<>>)
        t2 == First({i \in 1..Len(kb) : Lower(term) = Lower(kb[i].key)})
        t3 == First({i \in 1..Len(kb) :
                        \E a \in 1..Len(aliases(i)) : Lower(term) = Lower(aliases(i)[a])})
        t4 == First({i \in 1..Len(kb) : In(Lower(term), Lower(kb[i].key))})
        t5 == First({i \in 1..Len(kb) :
                        \E a \in 1..Len(aliases(i)) : In(Lower(term), Lower(aliases(i)[a]))})
    IN  IF term \in Keys(kb) THEN term
        ELSE IF t2 > 0 THEN kb[t2].key
        ELSE IF t3 > 0 THEN kb[t3].key
        ELSE IF t4 > 0 THEN kb[t4].key
        ELSE IF t5 > 0 THEN kb[t5].key
        ELSE NoneStr

\* not x, for a str or None
Not(x) == x = NoneStr \/ x = <<>>

\* answer_comparison_question looking only into the first term's comparisons
AnswerComparisonFirstMapOnly(term1, term2, kb) ==
    LET term1_match == find_best_match(term1, kb)
        term2_match == find_best_match(term2, kb)
    IN  IF Not(term1_match) \/ Not(term2_match)
        THEN LET missing == IF Not(term1_match) THEN term1 ELSE term2
             IN  Fmt("I don't have information about '{}' to make a comparison.", <<missing>>)
        ELSE LET info1 == Item(kb, term1_match)
                 info2 == Item(kb, term2_match)
             IN  IF Has(info1, "comparison") /\ term2_match \in Keys(info1.comparison)
                 THEN Fmt("{} vs. {}:\n\n{}",
                          <<term1_match, term2_match, Item(info1.comparison, term2_match)>>)
                 ELSE Plus(Plus(Plus(
                          Fmt("Comparing {} and {}:\n\n", <<term1_match, term2_match>>),
                          Fmt("{}: {}\n\n", <<term1_match, info1.definition>>)),
                          Fmt("{}: {}\n\n", <<term2_match, info2.definition>>)),
                          Fmt("Key differences: These financial concepts serve different purposes in personal finance and should be understood in their specific contexts.", <<>>))

answer_comparison_question(term1, term2, kb) ==
    LET term1_match == find_best_match(term1, kb)
        term2_match == find_best_match(term2, kb)
    IN  IF Not(term1_match) \/ Not(term2_match)
        THEN LET missing == IF Not(term1_match) THEN term1 ELSE term2
             IN  Fmt("I don't have information about '{}' to make a comparison.", <<missing>>)
        ELSE LET info1 == Item(kb, term1_match)
                 info2 == Item(kb, term2_match)
             IN  IF Has(info1, "comparison") /\ term2_match \in Keys(info1.comparison)
                 THEN Fmt("{} vs. {}:\n\n{}",
                          <<term1_match, term2_match, Item(info1.comparison, term2_match)>>)
                 ELSE IF Has(info2, "comparison") /\ term1_match \in Keys(info2.comparison)
                 THEN Fmt("{} vs. {}:\n\n{}",
                          <<term1_match, term2_match, Item(info2.comparison, term1_match)>>)
                 ELSE Plus(Plus(Plus(
                          Fmt("Comparing {} and {}:\n\n", <<term1_match, term2_match>>),
                          Fmt("{}: {}\n\n", <<term1_match, info1.definition>>)),
                          Fmt("{}: {}\n\n", <<term2_match, info2.definition>>)),
                          Fmt("Key differences: These financial concepts serve different purposes in personal finance and should be understood in their specific contexts.", <<>>))

\* related_terms of the how-to, recommendation and calculation answers:
\* the entries whose lowercased name or one of whose lowercased aliases
\* holds the phrase, in the order of the glossary
RECURSIVE RelatedTerms(_, _, _)
RelatedTerms(phrase, kb, i) ==
    IF i > Len(kb) THEN <<>>
    ELSE (IF In(phrase, Lower(kb[i].key)) \/ AnyAlias(phrase, kb[i].value)
          THEN <<kb[i]>> ELSE <<>>)
         \o RelatedTerms(phrase, kb, i + 1)

\* for term, info in related_terms: if field in info: ... return
FirstWith(related_terms, field) ==
    First({i \in 1..Len(related_terms) : Has(related_terms[i].value, field)})

\* answer_how_to_question looking for how_to in the first related term only
AnswerHowToFirstRelatedOnly(action, kb) ==
    LET related_terms == RelatedTerms(action, kb, 1)
    IN  IF related_terms = <<>>
        THEN Fmt("I don't have specific information about how to {}. Please try asking about a specific financial term.",
                 <<action>>)
        ELSE LET term == related_terms[1].key
                 info == related_terms[1].value
                 answer == Fmt("How to {} ({}):\n\n{}", <<action, term, Get(info, "how_to", <<>>)>>)
             IN  IF Has(info, "how_to")
                 THEN IF Has(info, "student_advice")
                      THEN Plus(answer, Fmt("\n\nAdvice for students:\n{}", <<info.student_advice>>))
                      ELSE answer
                 ELSE WithStudentContext(
                          Fmt("Information about {}:\n\n{}", <<term, info.definition>>), info)

answer_how_to_question(action, kb) ==
    LET related_terms == RelatedTerms(action, kb, 1)
        k == FirstWith(related_terms, "how_to")
    IN  IF related_terms = <<>>
        THEN Fmt("I don't have specific information about how to {}. Please try asking about a specific financial term.",
                 <<action>>)
        ELSE IF k > 0
        THEN LET term == related_terms[k].key
                 info == related_terms[k].value
                 answer == Fmt("How to {} ({}):\n\n{}", <<action, term, info.how_to>>)
             IN  IF Has(info, "student_advice")
                 THEN Plus(answer, Fmt("\n\nAdvice for students:\n{}", <<info.student_advice>>))
                 ELSE answer
        ELSE LET term == related_terms[1].key
                 info == related_terms[1].value
             IN  WithStudentContext(
                     Fmt("Information about {}:\n\n{}", <<term, info.definition>>), info)

answer_recommendation_question(action, kb) ==
    LET related_terms == RelatedTerms(action, kb, 1)
        k == FirstWith(related_terms, "student_advice")
    IN  IF related_terms = <<>>
        THEN Fmt("I don't have specific recommendations about {}. Please try asking about a specific financial term.",
                 <<action>>)
        ELSE IF k > 0
        THEN Fmt("Regarding {} ({}):\n\n{}",
                 <<action, related_terms[k].key, related_terms[k].value.student_advice>>)
        ELSE LET term == related_terms[1].key
                 info == related_terms[1].value
             IN  Fmt("Information about {} that may help:\n\n{}",
                     <<term, Get(info, "student_context", info.definition)>>)

\* answer_calculation_question with the fallback sentence of the
\* recommendation answer it was copied from
AnswerCalculationCopiedFallback(calculation, kb) ==
    IF RelatedTerms(calculation, kb, 1) = <<>>
    THEN Fmt("I don't have specific recommendations about {}. Please try asking about a specific financial term.",
             <<calculation>>)
    ELSE Fmt("Information about {} that may help:\n\n{}",
             <<RelatedTerms(calculation, kb, 1)[1].key,
               RelatedTerms(calculation, kb, 1)[1].value.definition>>)

answer_calculation_question(calculation, kb) ==
    LET related_terms == RelatedTerms(calculation, kb, 1)
        k == FirstWith(related_terms, "formula")
    IN  IF related_terms = <<>>
        THEN Fmt("I don't have specific calculation information about {}. Please try asking about a specific financial term.",
                 <<calculation>>)
        ELSE IF k > 0
        THEN LET term == related_terms[k].key
                 info == related_terms[k].value
                 answer == Fmt("For calculating {}:\n\n{}", <<term, info.formula>>)
             IN  IF Has(info, "calculation_example")
                 THEN Plus(answer, Fmt("\n\n{}", <<info.calculation_example>>))
                 ELSE answer
        ELSE Fmt("Information about {} that may help:\n\n{}",
                 <<related_terms[1].key, related_terms[1].value.definition>>)

\* \w of the regular expressions, over the characters of the model
Digits == {"0", "1", "2", "3", "4", "5", "6", "7", "8", "9"}
WordChar(c) == c \in LowerSet \/ c \in UpperSet \/ c \in Digits \/ c = "_"

\* the number of lowercase letters from position i on
RECURSIVE LetterRun(_, _)
LetterRun(text, i) ==
    IF i > Len(text) \/ text[i] \notin LowerSet THEN 0 ELSE 1 + LetterRun(text, i + 1)

\* re.findall(r'\b[a-z]{3,}\b', text) from position i on: a run of three
\* or more lowercase letters with no word character on either side
RECURSIVE FindWords(_, _)
FindWords(text, i) ==
    IF i > Len(text) THEN <<>>
    ELSE LET n == LetterRun(text, i)
             starts == i = 1 \/ ~WordChar(text[i - 1])
             ends == i + n > Len(text) \/ ~WordChar(text[i + n])
         IN  IF n >= 3 /\ starts /\ ends
             THEN <<SubSeq(text, i, i + n - 1)>> \o FindWords(text, i + n)
             ELSE FindWords(text, i + 1)

\* the number of positions of words whose word is in the text
Occurrences(words, text) == Cardinality({w \in 1..Len(words) : In(words[w], text)})

RECURSIVE AliasRelevance(_, _, _)
AliasRelevance(words, aliases, a) ==
    IF a > Len(aliases) THEN 0
    ELSE 2 * Occurrences(words, Lower(aliases[a])) + AliasRelevance(words, aliases, a + 1)

\* the relevance with the name counted like the definition
RelevanceNameAsDefinition(words, term, info) ==
    Occurrences(words, Lower(term))
    + AliasRelevance(words, Get(info, "aliases", <<>>), 1)
    + Occurrences(words, Lower(info.definition))

\* the relevance of one term
Relevance(words, term, info) ==
    3 * Occurrences(words, Lower(term))
    + AliasRelevance(words, Get(info, "aliases", <<>>), 1)
    + Occurrences(words, Lower(info.definition))

\* term_relevance: the terms of relevance above 0, in the order of the glossary
RECURSIVE TermRelevance(_, _, _)
TermRelevance(words, kb, i) ==
    IF i > Len(kb) THEN <<>>
    ELSE LET relevance == Relevance(words, kb[i].key, kb[i].value)
         IN  (IF relevance > 0 THEN <<[key |-> kb[i].key, value |-> relevance]>> ELSE <<>>)
             \o TermRelevance(words, kb, i + 1)

\* sorted(term_relevance.keys(), key=..., reverse=True): by falling
\* relevance, terms of equal relevance in the order they had
RECURSIVE SortedByRelevance(_)
SortedByRelevance(term_relevance) ==
    IF term_relevance = <<>> THEN <<>>
    ELSE LET n == Len(term_relevance)
             best == CHOOSE i \in 1..n :
                        /\ \A j \in 1..n : term_relevance[j].value <= term_relevance[i].value
                        /\ \A j \in 1..(i - 1) : term_relevance[j].value < term_relevance[i].value
             rest == [j \in 1..(n - 1) |->
                        IF j < best THEN term_relevance[j] ELSE term_relevance[j + 1]]
         IN  <<term_relevance[best].key>> \o SortedByRelevance(rest)

\* ', '.join(texts)
RECURSIVE Join(_, _)
Join(sep, texts) ==
    IF texts = <<>> THEN <<>>
    ELSE IF Len(texts) = 1 THEN texts[1]
    ELSE texts[1] \o sep \o Join(sep, Tail(texts))

answer_general_question(q, kb) ==
    LET words == FindWords(Lower(q), 1)
        relevant_terms == SortedByRelevance(TermRelevance(words, kb, 1))
    IN  IF relevant_terms = <<>>
        THEN Fmt("I don't have enough information to answer that question. Please try asking about specific financial terms or concepts.", <<>>)
        ELSE LET best_term == relevant_terms[1]
                 info == Item(kb, best_term)
                 answer == WithStudentContext(
                     Fmt("Based on your question, you might be interested in information about {}:\n\n{}",
                         <<best_term, info.definition>>), info)
             IN  IF Len(relevant_terms) > 1
                 THEN Plus(answer,
                           Fmt("\n\nYou might also be interested in: {}",
                               <<Join(<<",", " ">>,
                                      SubSeq(relevant_terms, 2,
                                             IF Len(relevant_terms) < 3 THEN Len(relevant_terms) ELSE 3))>>))
                 ELSE answer

\* return answer_..._question(..., knowledge_base): the result of the call
\* process_question makes
Return(call, kb) ==
    CASE call.handler = "answer_definition_question" ->
            answer_definition_question(call.args[1], kb)
      [] call.handler = "answer_comparison_question" ->
            answer_comparison_question(call.args[1], call.args[2], kb)
      [] call.handler = "answer_how_to_question" ->
            answer_how_to_question(call.args[1], kb)
      [] call.handler = "answer_recommendation_question" ->
            answer_recommendation_question(call.args[1], kb)
      [] call.handler = "answer_calculation_question" ->
            answer_calculation_question(call.args[1], kb)
      [] call.handler = "answer_general_question" ->
            answer_general_question(call.args[1], kb)

\* what a call returned, held apart from NotRun
Returned(value) == [returned |-> value]

(***************************************************************************)
(* The persistence layer (src/src/db/models.py).  A table is the sequence  *)
(* of its rows in rowid order.  A Budget object is a record of its         *)
(* attributes; expenses and income_sources are lists of dicts.             *)
(***************************************************************************)
\* Budget.id of an object that was never saved: None, which 'if self.id'
\* takes like 0
NoId == 0

\* Budget(user_id, income, savings, expenses, income_sources, budget_id)
NewBudget(user_id, income, savings, expenses, income_sources, budget_id) ==
    [id |-> budget_id, user_id |-> user_id, income |-> income, savings |-> savings,
     expenses |-> expenses, income_sources |-> income_sources]

\* cursor.lastrowid after INSERT INTO budgets: ids are AUTOINCREMENT and no
\* budget row is ever deleted
LastRowId(tx) == Len(tx.budgets) + 1

\* the statements Budget.save executes between BEGIN and commit, in order
SaveStatements(self, lastrowid) ==
    LET id == IF self.id # NoId THEN self.id ELSE lastrowid
    IN  (IF self.id # NoId
         THEN << [sql |-> "UPDATE budgets", id |-> self.id,
                  income |-> self.income, savings |-> self.savings],
                 [sql |-> "DELETE FROM expenses", budget_id |-> self.id],
                 [sql |-> "DELETE FROM income_sources", budget_id |-> self.id] >>
         ELSE << [sql |-> "INSERT INTO budgets", user_id |-> self.user_id,
                  income |-> self.income, savings |-> self.savings] >>)
        \o [i \in 1..Len(self.expenses) |->
              [sql |-> "INSERT INTO expenses", budget_id |-> id,
               category |-> self.expenses[i].category,
               amount |-> self.expenses[i].amount]]
        \o [i \in 1..Len(self.income_sources) |->
              [sql |-> "INSERT INTO income_sources", budget_id |-> id,
               source |-> self.income_sources[i].source,
               amount |-> self.income_sources[i].amount]]

\* cursor.execute(statement) on the tables as the transaction sees them
Execute(statement, tx) ==
    CASE statement.sql = "UPDATE budgets" ->
            [tx EXCEPT !.budgets =
                [r \in 1..Len(tx.budgets) |->
                    IF tx.budgets[r].id = statement.id
                    THEN [tx.budgets[r] EXCEPT !.income = statement.income,
                                               !.savings = statement.savings]
                    ELSE tx.budgets[r]]]
      [] statement.sql = "DELETE FROM expenses" ->
            [tx EXCEPT !.expenses =
                SelectSeq(tx.expenses, LAMBDA row : row.budget_id # statement.budget_id)]
      [] statement.sql = "DELETE FROM income_sources" ->
            [tx EXCEPT !.income_sources =
                SelectSeq(tx.income_sources,
                          LAMBDA row : row.budget_id # statement.budget_id)]
      [] statement.sql = "INSERT INTO budgets" ->
            [tx EXCEPT !.budgets =
                Append(tx.budgets,
                       [id |-> LastRowId(tx), user_id |-> statement.user_id,
                        income |-> statement.income, savings |-> statement.savings])]
      [] statement.sql = "INSERT INTO expenses" ->
            [tx EXCEPT !.expenses =
                Append(tx.expenses,
                       [budget_id |-> statement.budget_id,
                        category |-> statement.category, amount |-> statement.amount])]
      [] statement.sql = "INSERT INTO income_sources" ->
            [tx EXCEPT !.income_sources =
                Append(tx.income_sources,
                       [budget_id |-> statement.budget_id,
                        source |-> statement.source, amount |-> statement.amount])]

\* the tables as the transaction sees them after the first k statements
RECURSIVE ExecuteFirst(_, _, _)
ExecuteFirst(k, statements, tx) ==
    IF k = 0 THEN tx
    ELSE Execute(statements[k], ExecuteFirst(k - 1, statements, tx))

\* Budget.save without the transaction: every statement is committed as it
\* is executed, and the statements before the one that raises stay
BudgetSaveAutocommit(self, store, fails) ==
    LET statements == SaveStatements(self, LastRowId(store))
        id == IF self.id # NoId THEN self.id ELSE LastRowId(store)
    IN  IF fails = 0
        THEN [db |-> ExecuteFirst(Len(statements), statements, store),
              id |-> id, raised |-> FALSE]
        ELSE [db |-> ExecuteFirst(IF fails > Len(statements) THEN Len(statements)
                                  ELSE fails - 1, statements, store),
              id |-> NoId, raised |-> TRUE]

\* Budget.save.  fails = 0: every statement and the commit succeed.
\* fails = k: the k-th statement raises (the commit, for k one more than the
\* number of statements); the except clause rolls back and raises again.
\* The result: the tables after the call, the id returned, whether it raised.
Budget_save(self, store, fails) ==
    LET statements == SaveStatements(self, LastRowId(store))
        id == IF self.id # NoId THEN self.id ELSE LastRowId(store)
    IN  IF fails = 0
        THEN [db |-> ExecuteFirst(Len(statements), statements, store),
              id |-> id, raised |-> FALSE]
        ELSE [db |-> store, id |-> NoId, raised |-> TRUE]

\* the number of places at which Budget.save can raise
FailurePoints(self) ==
    Len(SaveStatements(self, NoId)) + 1

\* Budget.get_latest_by_user_id: the user's budget row of the latest
\* created_at with its expense and income rows, or None.  created_at is the
\* time of the INSERT, which does not decrease from one insert to the next:
\* the latest row is the user's row of the highest id.
get_latest_by_user_id(store, user_id) ==
    LET rows == {r \in 1..Len(store.budgets) : store.budgets[r].user_id = user_id}
    IN  IF rows = {} THEN None
        ELSE LET budget_row == store.budgets[CHOOSE r \in rows : \A o \in rows : o <= r]
                 expense_rows == SelectSeq(store.expenses,
                                           LAMBDA row : row.budget_id = budget_row.id)
                 income_rows == SelectSeq(store.income_sources,
                                          LAMBDA row : row.budget_id = budget_row.id)
             IN  NewBudget(budget_row.user_id, budget_row.income, budget_row.savings,
                           [i \in 1..Len(expense_rows) |->
                               [category |-> expense_rows[i].category,
                                amount |-> expense_rows[i].amount]],
                           [i \in 1..Len(income_rows) |->
                               [source |-> income_rows[i].source,
                                amount |-> income_rows[i].amount]],
                           budget_row.id)

(***************************************************************************)
(* The budget service (src/src/services/budget.py) and the prompts it      *)
(* calls (src/src/ui/prompts.py).  A prompt is modelled by what it         *)
(* returns: Returned(value), or None when the user backs out.  The output  *)
(* to the terminal is left out.                                            *)
(***************************************************************************)
EXPENSE_CATEGORIES ==
    <<"Housing", "Groceries", "Dining Out", "Utilities", "Transportation",
      "Textbooks", "School Supplies", "Entertainment", "Clothing", "Personal Care",
      "Health & Wellness", "Insurance", "Phone & Internet", "Subscriptions",
      "Loan Payments", "Miscellaneous">>

INCOME_SOURCES ==
    <<"Part-time Job", "Work Study", "Financial Aid", "Scholarships", "Grants",
      "Family Support", "Freelance Work", "Summer Savings", "Other">>

\* prompt_for_selection(prompt_text, options): choice is the number
\* prompt_for_menu_choice returns, 1..len(options) + 1, the last being Back
prompt_for_selection(options, choice) ==
    IF options = <<>> THEN None
    ELSE IF choice = Len(options) + 1 THEN None
    ELSE Returned(options[choice])

\* the dicts prompt_for_budget_income appends for the amounts above 0 among
\* the first i answers, in order
RECURSIVE IncomeSourcesAboveZero(_, _)
IncomeSourcesAboveZero(answers, i) ==
    IF i = 0 THEN <<>>
    ELSE IncomeSourcesAboveZero(answers, i - 1)
         \o (IF answers[i].returned > 0
             THEN <<[source |-> INCOME_SOURCES[i], amount |-> answers[i].returned]>>
             ELSE <<>>)

\* the dicts prompt_for_budget_expenses appends for the amounts above 0
\* among the first i answers, in order
RECURSIVE ExpensesAboveZero(_, _)
ExpensesAboveZero(answers, i) ==
    IF i = 0 THEN <<>>
    ELSE ExpensesAboveZero(answers, i - 1)
         \o (IF answers[i].returned > 0
             THEN <<[category |-> EXPENSE_CATEGORIES[i], amount |-> answers[i].returned]>>
             ELSE <<>>)

RECURSIVE SumReturned(_, _)
SumReturned(answers, i) ==
    IF i = 0 THEN 0 ELSE SumReturned(answers, i - 1) + answers[i].returned

\* prompt_for_budget_income: answers[i] is what prompt_for_float returns for
\* INCOME_SOURCES[i].  The result is the tuple (total_income, income_sources).
prompt_for_budget_income(answers) ==
    IF \E i \in 1..Len(INCOME_SOURCES) : answers[i] = None
    THEN [total_income |-> None, income_sources |-> None]
    ELSE [total_income |-> Returned(SumReturned(answers, Len(INCOME_SOURCES))),
          income_sources |->
              Returned(IncomeSourcesAboveZero(answers, Len(INCOME_SOURCES)))]

\* prompt_for_budget_expenses: answers[i] is what prompt_for_float returns
\* for EXPENSE_CATEGORIES[i]
prompt_for_budget_expenses(answers) ==
    IF \E i \in 1..Len(EXPENSE_CATEGORIES) : answers[i] = None
    THEN None
    ELSE Returned(ExpensesAboveZero(answers, Len(EXPENSE_CATEGORIES)))

\* create_update_budget that makes a new Budget whether or not the user has
\* one
CreateUpdateBudgetAlwaysNew(user_id, store, prompts, fails) ==
    LET existing_budget == get_latest_by_user_id(store, user_id)
        income == prompt_for_budget_income(prompts.income)
        savings == prompts.savings
        expenses == prompt_for_budget_expenses(prompts.expenses)
    IN  IF existing_budget # None
           /\ (prompts.update = None \/ prompts.update = Returned(FALSE))
        THEN store
        ELSE IF income.total_income = None THEN store
        ELSE IF savings = None THEN store
        ELSE IF expenses = None THEN store
        ELSE Budget_save(NewBudget(user_id, income.total_income.returned,
                                   savings.returned, expenses.returned,
                                   income.income_sources.returned, NoId),
                         store, fails).db

\* add_expense without the return on Back at the second selection: the
\* amount replaces the line's
AddExpenseBackReplaces(user_id, store, prompts, fails) ==
    LET existing == get_latest_by_user_id(store, user_id)
        category_chosen == prompt_for_selection(EXPENSE_CATEGORIES, prompts.category)
        amount == prompts.amount
        choice == prompt_for_selection(<<"Add to existing amount",
                                         "Replace existing amount">>, prompts.choice)
        returns == [db |-> store, raised |-> FALSE]
    IN  IF existing = None THEN returns
        ELSE IF category_chosen = None THEN returns
        ELSE IF amount = None THEN returns
        ELSE LET found == First({i \in 1..Len(existing.expenses) :
                                   existing.expenses[i].category = category_chosen.returned})
                 saved ==
                    IF found > 0
                    THEN Budget_save(
                            [existing EXCEPT !.expenses[found].amount =
                                IF choice = Returned("Add to existing amount")
                                THEN @ + amount.returned ELSE amount.returned],
                            store, fails)
                    ELSE Budget_save(
                            [existing EXCEPT !.expenses =
                                Append(@, [category |-> category_chosen.returned,
                                           amount |-> amount.returned])],
                            store, fails)
             IN  [db |-> saved.db, raised |-> saved.raised]

\* add_expense without the search for the category among the lines: the
\* amount is appended as a new line
AddExpenseAlwaysAppends(user_id, store, prompts, fails) ==
    LET existing == get_latest_by_user_id(store, user_id)
        category_chosen == prompt_for_selection(EXPENSE_CATEGORIES, prompts.category)
        amount == prompts.amount
        returns == [db |-> store, raised |-> FALSE]
    IN  IF existing = None THEN returns
        ELSE IF category_chosen = None THEN returns
        ELSE IF amount = None THEN returns
        ELSE LET saved ==
                    Budget_save(
                        [existing EXCEPT !.expenses =
                            Append(@, [category |-> category_chosen.returned,
                                       amount |-> amount.returned])],
                        store, fails)
             IN  [db |-> saved.db, raised |-> saved.raised]

\* create_update_budget(user_id).  prompts holds what the prompts return:
\* update (the confirmation, asked when a budget exists), income, savings,
\* expenses.  The result is the tables after the call.
create_update_budget(user_id, store, prompts, fails) ==
    LET existing_budget == get_latest_by_user_id(store, user_id)
        income == prompt_for_budget_income(prompts.income)
        savings == prompts.savings
        expenses == prompt_for_budget_expenses(prompts.expenses)
    IN  IF existing_budget # None
           /\ (prompts.update = None \/ prompts.update = Returned(FALSE))
        THEN store
        ELSE IF income.total_income = None THEN store
        ELSE IF savings = None THEN store
        ELSE IF expenses = None THEN store
        ELSE LET saved ==
                    IF existing_budget # None
                    THEN [existing_budget EXCEPT
                             !.income = income.total_income.returned,
                             !.savings = savings.returned,
                             !.expenses = expenses.returned,
                             !.income_sources = income.income_sources.returned]
                    ELSE NewBudget(user_id, income.total_income.returned,
                                   savings.returned, expenses.returned,
                                   income.income_sources.returned, NoId)
             IN  Budget_save(saved, store, fails).db

\* add_expense(user_id).  prompts holds the number chosen among the
\* categories, what prompt_for_float returns for the amount, and the number
\* chosen between adding and replacing (asked when the category is there).
\* The result is the tables after the call and whether the save's exception
\* left the call.
add_expense(user_id, store, prompts, fails) ==
    LET existing == get_latest_by_user_id(store, user_id)
        category_chosen == prompt_for_selection(EXPENSE_CATEGORIES, prompts.category)
        amount == prompts.amount
        choice == prompt_for_selection(<<"Add to existing amount",
                                         "Replace existing amount">>, prompts.choice)
        returns == [db |-> store, raised |-> FALSE]
    IN  IF existing = None THEN returns
        ELSE IF category_chosen = None THEN returns
        ELSE IF amount = None THEN returns
        ELSE LET found == First({i \in 1..Len(existing.expenses) :
                                   existing.expenses[i].category = category_chosen.returned})
                 saved ==
                    IF found > 0
                    THEN Budget_save(
                            [existing EXCEPT !.expenses[found].amount =
                                IF choice = Returned("Add to existing amount")
                                THEN @ + amount.returned ELSE amount.returned],
                            store, fails)
                    ELSE Budget_save(
                            [existing EXCEPT !.expenses =
                                Append(@, [category |-> category_chosen.returned,
                                           amount |-> amount.returned])],
                            store, fails)
             IN  IF found > 0 /\ choice = None THEN returns
                 ELSE [db |-> saved.db, raised |-> saved.raised]

(***************************************************************************)
(* Goals: src/src/db/models.py (Goal) and src/src/services/goals.py        *)
(***************************************************************************)
\* Goal(user_id, title, target_amount, current_amount, deadline, goal_id)
NewGoal(user_id, title, target_amount, current_amount, deadline, goal_id) ==
    [id |-> goal_id, user_id |-> user_id, title |-> title,
     target_amount |-> target_amount, current_amount |-> current_amount,
     deadline |-> deadline]

\* Goal.save at the time now: UPDATE ... WHERE id = ? when the goal has an
\* id, INSERT with the next id and created_at the time of the insert when
\* not; a statement that raises leaves the table as it was
Goal_save(self, store, now, fails) ==
    IF fails # 0 THEN [db |-> store, raised |-> TRUE]
    ELSE IF self.id # NoId
    THEN [db |-> [store EXCEPT !.goals =
                    [r \in 1..Len(store.goals) |->
                        IF store.goals[r].id = self.id
                        THEN [store.goals[r] EXCEPT
                                 !.title = self.title,
                                 !.target_amount = self.target_amount,
                                 !.current_amount = self.current_amount,
                                 !.deadline = self.deadline]
                        ELSE store.goals[r]]],
          raised |-> FALSE]
    ELSE [db |-> [store EXCEPT !.goals =
                    Append(@, [id |-> Len(store.goals) + 1, user_id |-> self.user_id,
                               title |-> self.title,
                               target_amount |-> self.target_amount,
                               current_amount |-> self.current_amount,
                               deadline |-> self.deadline, created_at |-> now])],
          raised |-> FALSE]

\* the rows of a user, as Goal objects, in an order of the rows
GoalsInOrder(store, order) ==
    [i \in 1..Len(order) |->
        NewGoal(store.goals[order[i]].user_id, store.goals[order[i]].title,
                store.goals[order[i]].target_amount,
                store.goals[order[i]].current_amount,
                store.goals[order[i]].deadline, store.goals[order[i]].id)]

\* Goal.get_all_by_user_id: the user's goals ORDER BY created_at DESC.  The
\* order of rows of one created_at is left to the database: every list the
\* query can return
get_all_by_user_id(store, user_id) ==
    LET rows == {r \in 1..Len(store.goals) : store.goals[r].user_id = user_id}
        orders == {order \in [1..Cardinality(rows) -> rows] :
                      /\ \A i \in DOMAIN order : \A j \in DOMAIN order :
                            i # j => order[i] # order[j]
                      /\ \A i \in DOMAIN order : \A j \in DOMAIN order :
                            i < j => store.goals[order[i]].created_at
                                        >= store.goals[order[j]].created_at}
    IN  {GoalsInOrder(store, order) : order \in orders}

\* str(n) of a number without a fraction
RECURSIVE Decimal(_)
Decimal(n) ==
    LET digit == <<"0", "1", "2", "3", "4", "5", "6", "7", "8", "9">>[(n % 10) + 1]
    IN  IF n < 10 THEN <<digit>> ELSE Append(Decimal(n \div 10), digit)

\* f"{amount:.2f}" of an amount without a fraction
TwoPlaces(amount) == Decimal(amount) \o <<".", "0", "0">>

\* the entry of goal_titles for a goal; no Goal has a status attribute
GoalTitle(goal) ==
    goal.title \o <<" ", "-", " ", "$">> \o TwoPlaces(goal.current_amount)
               \o <<" ", "/", " ", "$">> \o TwoPlaces(goal.target_amount)

\* list.index(value)
ListIndex(list, value) ==
    First({i \in 1..Len(list) : list[i] = value})

\* update_goal_progress(user_id).  goals is what get_all_by_user_id
\* returned; prompts holds the number chosen in the list and what
\* prompt_for_float returns.  The result is the tables after the call and
\* the message of the last display_error or display_success.
update_goal_progress(user_id, store, goals, prompts, fails) ==
    LET goal_titles == [i \in 1..Len(goals) |-> GoalTitle(goals[i])]
        selected_idx == prompt_for_selection(goal_titles, prompts.selection)
        new_amount == prompts.amount
    IN  IF goals = <<>> THEN [db |-> store, displayed |-> "You don't have any goals yet. Please create one first."]
        ELSE IF selected_idx = None THEN [db |-> store, displayed |-> ""]
        ELSE IF new_amount = None THEN [db |-> store, displayed |-> ""]
        ELSE LET selected_goal == goals[ListIndex(goal_titles, selected_idx.returned)]
                 saved == Goal_save([selected_goal EXCEPT
                                        !.current_amount = new_amount.returned],
                                    store, 0, fails)
             IN  [db |-> saved.db,
                  displayed |-> IF saved.raised THEN "Error updating goal: {}" ELSE "Goal '{}' updated successfully!"]

\* set_new_goal(user_id) at the time now.  details is what
\* prompt_for_goal_details returns.
set_new_goal(user_id, store, details, now, fails) ==
    IF details.title = None THEN [db |-> store, displayed |-> ""]
    ELSE LET saved == Goal_save(NewGoal(user_id, details.title.returned,
                                        details.target_amount.returned,
                                        details.current_amount.returned,
                                        details.deadline, NoId),
                                store, now, fails)
         IN  [db |-> saved.db,
              displayed |-> IF saved.raised THEN "Error creating goal: {}" ELSE "Goal '{}' created successfully!"]

(***************************************************************************)
(* Inputs                                                                  *)
(***************************************************************************)
SeqsUpTo(S, n) == UNION {[1..k -> S] : k \in 0..n}

IncomeValues == {0, 20, 2000}
SavingsValues == {0, 1, 2, 100, 150}
AmountValues == {0, 2, 10, 700}
\* two categories of one bucket, one of each other bucket, one unlisted
LineCategories ==
    {"Housing", "Rent", "Groceries", "Transportation", "Textbooks",
     "Entertainment", "Utilities"}
ExpenseLines == [category : LineCategories, amount : AmountValues]
Budgets ==
    [income : IncomeValues, savings : SavingsValues,
     expenses : SeqsUpTo(ExpenseLines, MaxLines)]

\* every key of category_mapping, the names the program uses elsewhere,
\* and spellings that differ from a key in case or spacing
CategoryInputs ==
    DOMAIN category_mapping \cup
    {"Utilities", "Savings", "Food", "Education", "Other", "Unlisted Thing", "",
     "Part-time Job", "Work Study", "Financial Aid", "Scholarships", "Grants",
     "Family Support", "Freelance Work", "Summer Savings",
     "Emergency Fund", "Textbook Fund", "Spring Break", "Summer Travel",
     "New Computer", "Study Abroad", "Graduation Expenses", "Moving Expenses",
     "Loan Payment", "Car Purchase",
     "housing", "rent", "RENT", "Rent ", "groceries", "dining out", "Dining out",
     "meal plan", "textbooks", "tuition", "bus", "gas", "GAS", "parking",
     "transportation", "entertainment", "streaming", "movies", "games"}

(***************************************************************************)
(* Glossaries.  Term entries with and without each optional field, names   *)
(* that differ in letter case only, names and aliases that hold one        *)
(* another.                                                                *)
(***************************************************************************)
CreditScore ==
    [key |-> <<"C", "r", "e", "d", "i", "t", " ", "S", "c", "o", "r", "e">>,
     value |-> [definition |-> <<"a", " ", "n", "u", "m", "b", "e", "r", " ", "t", "h", "a", "t", " ", "r", "a", "t", "e", "s", " ", "h", "o", "w", " ", "y", "o", "u", " ", "r", "e", "p", "a", "y", " ", "d", "e", "b", "t">>,
                aliases |-> <<<<"F", "I", "C", "O">>, <<"c", "r", "e", "d", "i", "t", " ", "r", "a", "t", "i", "n", "g">>>>,
                student_context |-> <<"s", "t", "u", "d", "e", "n", "t", "s", " ", "s", "t", "a", "r", "t", " ", "w", "i", "t", "h", " ", "n", "o", " ", "s", "c", "o", "r", "e">>,
                how_to |-> <<"p", "a", "y", " ", "e", "v", "e", "r", "y", " ", "b", "i", "l", "l", " ", "o", "n", " ", "t", "i", "m", "e">>,
                student_advice |-> <<"o", "p", "e", "n", " ", "o", "n", "e", " ", "c", "a", "r", "d", " ", "a", "n", "d", " ", "p", "a", "y", " ", "i", "t", " ", "i", "n", " ", "f", "u", "l", "l">>,
                comparison |-> <<[key |-> <<"C", "r", "e", "d", "i", "t", " ", "R", "e", "p", "o", "r", "t">>,
                                  value |-> <<"t", "h", "e", " ", "s", "c", "o", "r", "e", " ", "i", "s", " ", "a", " ", "n", "u", "m", "b", "e", "r", " ", "a", "n", "d", " ", "t", "h", "e", " ", "r", "e", "p", "o", "r", "t", " ", "i", "s", " ", "a", " ", "r", "e", "c", "o", "r", "d">>]>>]]
LowercaseScore ==
    [key |-> <<"c", "r", "e", "d", "i", "t", " ", "s", "c", "o", "r", "e">>,
     value |-> [definition |-> <<"t", "h", "e", " ", "e", "n", "t", "r", "y", " ", "w", "i", "t", "h", " ", "t", "h", "e", " ", "l", "o", "w", "e", "r", "c", "a", "s", "e", " ", "n", "a", "m", "e">>]]
CreditReport ==
    [key |-> <<"C", "r", "e", "d", "i", "t", " ", "R", "e", "p", "o", "r", "t">>,
     value |-> [definition |-> <<"a", " ", "r", "e", "c", "o", "r", "d", " ", "o", "f", " ", "y", "o", "u", "r", " ", "a", "c", "c", "o", "u", "n", "t", "s">>,
                aliases |-> <<<<"c", "r", "e", "d", "i", "t", " ", "s", "c", "o", "r", "e", " ", "r", "e", "p", "o", "r", "t">>>>]]
FicoScore ==
    [key |-> <<"F", "I", "C", "O", " ", "S", "c", "o", "r", "e">>,
     value |-> [definition |-> <<"t", "h", "e", " ", "s", "c", "o", "r", "e", " ", "o", "f", " ", "o", "n", "e", " ", "s", "c", "o", "r", "i", "n", "g", " ", "c", "o", "m", "p", "a", "n", "y">>,
                aliases |-> <<>>,
                comparison |-> <<[key |-> <<"C", "r", "e", "d", "i", "t", " ", "S", "c", "o", "r", "e">>,
                                  value |-> <<"o", "n", "e", " ", "b", "r", "a", "n", "d", " ", "o", "f", " ", "s", "c", "o", "r", "e", " ", "a", "m", "o", "n", "g", " ", "s", "e", "v", "e", "r", "a", "l">>]>>]]
Loan ==
    [key |-> <<"L", "o", "a", "n">>,
     value |-> [definition |-> <<"m", "o", "n", "e", "y", " ", "y", "o", "u", " ", "b", "o", "r", "r", "o", "w", " ", "a", "n", "d", " ", "r", "e", "p", "a", "y", " ", "w", "i", "t", "h", " ", "i", "n", "t", "e", "r", "e", "s", "t">>,
                aliases |-> <<<<"l", "i", "n", "e", " ", "o", "f", " ", "c", "r", "e", "d", "i", "t">>, <<"c", "r", "e", "d", "i", "t", " ", "l", "i", "n", "e">>>>,
                student_advice |-> <<"b", "o", "r", "r", "o", "w", " ", "o", "n", "l", "y", " ", "w", "h", "a", "t", " ", "t", "u", "i", "t", "i", "o", "n", " ", "n", "e", "e", "d", "s">>]]
Budget ==
    [key |-> <<"B", "u", "d", "g", "e", "t">>,
     value |-> [definition |-> <<"a", " ", "p", "l", "a", "n", " ", "f", "o", "r", " ", "i", "n", "c", "o", "m", "e", " ", "a", "n", "d", " ", "s", "p", "e", "n", "d", "i", "n", "g">>,
                aliases |-> <<<<"s", "p", "e", "n", "d", "i", "n", "g", " ", "p", "l", "a", "n">>>>,
                how_to |-> <<"l", "i", "s", "t", " ", "i", "n", "c", "o", "m", "e", " ", "t", "h", "e", "n", " ", "e", "x", "p", "e", "n", "s", "e", "s">>,
                formula |-> <<"i", "n", "c", "o", "m", "e", " ", "m", "i", "n", "u", "s", " ", "e", "x", "p", "e", "n", "s", "e", "s">>,
                calculation_example |-> <<"2", "0", "0", "0", " ", "m", "i", "n", "u", "s", " ", "1", "5", "0", "0", " ", "l", "e", "a", "v", "e", "s", " ", "5", "0", "0">>]]

TermEntries == {CreditScore, LowercaseScore, CreditReport, FicoScore, Loan, Budget}

\* the dicts of up to MaxTerms entries: pairwise distinct keys, any order
Glossaries ==
    {kb \in SeqsUpTo(TermEntries, MaxTerms) :
        \A i, j \in 1..Len(kb) : i # j => kb[i].key # kb[j].key}

SampleGlossary == <<CreditScore, Loan>>

\* phrases handed to the functions that look a term up
TermInputs ==
    {<<"c", "r", "e", "d", "i", "t", " ", "s", "c", "o", "r", "e">>, <<"C", "r", "e", "d", "i", "t", " ", "S", "c", "o", "r", "e">>, <<"f", "i", "c", "o">>, <<"F", "I", "C", "O", " ", "S", "C", "O", "R", "E">>, <<"c", "r", "e", "d", "i", "t">>,
     <<"b", "u", "d", "g", "e", "t">>, <<"x", "y", "z">>, <<>>}

(***************************************************************************)
(* The budget analyzer as a state machine: a budget is handed to           *)
(* analyze_budget.                                                         *)
(***************************************************************************)
InitAnalyze ==
    /\ budget \in Budgets \cup {None}
    /\ analysis = NotRun
    /\ screen = <<>>
    /\ category = ""
    /\ general = NoResult
    /\ question = <<>>
    /\ dispatch = NotRun
    /\ knowledge_base = <<>>
    /\ result = NotRun
    /\ db = init_db

AnalyzeBudget ==
    /\ analysis = NotRun
    /\ analysis' = analyze_budget(budget)
    /\ UNCHANGED <<db, budget, screen, category, general, question, dispatch,
                   knowledge_base, result>>

NextAnalyze == AnalyzeBudget

SpecAnalyze == InitAnalyze /\ [][NextAnalyze]_vars

(***************************************************************************)
(* The display as a state machine: an analysis is handed to                *)
(* display_budget_recommendations.                                         *)
(***************************************************************************)
RecInputs ==
    [type : {"warning", "success", "info", "tip"},
     message : {<<"m1">>, <<"m2">>},
     priority : {"high", "medium", "low"}]
AnalysisInputs ==
    {None} \cup {[recommendations |-> r] : r \in SeqsUpTo(RecInputs, MaxRecs)}

InitDisplay ==
    /\ analysis \in AnalysisInputs
    /\ screen = <<>>
    /\ budget = None
    /\ category = ""
    /\ general = NoResult
    /\ question = <<>>
    /\ dispatch = NotRun
    /\ knowledge_base = <<>>
    /\ result = NotRun
    /\ db = init_db

DisplayBudgetRecommendations ==
    /\ screen = <<>>
    /\ screen' = display_budget_recommendations(analysis)
    /\ UNCHANGED <<db, analysis, budget, category, general, question, dispatch,
                   knowledge_base, result>>

NextDisplay == DisplayBudgetRecommendations

SpecDisplay == InitDisplay /\ [][NextDisplay]_vars

(***************************************************************************)
(* The category mapper as a state machine.                                 *)
(***************************************************************************)
InitMap ==
    /\ category \in CategoryInputs
    /\ general = NoResult
    /\ budget = None
    /\ analysis = NotRun
    /\ screen = <<>>
    /\ question = <<>>
    /\ dispatch = NotRun
    /\ knowledge_base = <<>>
    /\ result = NotRun
    /\ db = init_db

MapToGeneralCategory ==
    /\ general = NoResult
    /\ general' = map_to_general_category(category)
    /\ UNCHANGED <<db, category, budget, analysis, screen, question, dispatch,
                   knowledge_base, result>>

NextMap == MapToGeneralCategory

SpecMap == InitMap /\ [][NextMap]_vars

(***************************************************************************)
(* The question classifier as a state machine: a question is handed to     *)
(* process_question.                                                       *)
(***************************************************************************)
\* trigger phrases of every pattern group, in the letter case a user types
\* them, connectives, subjects and text no pattern matches
Phrases ==
    {<<"W", "h", "a", "t", " ", "i", "s", " ", "a", " ">>,
     <<"w", "h", "a", "t", " ", "a", "r", "e", " ">>,
     <<"h", "o", "w", " ", "t", "o", " ">>,
     <<"H", "o", "w", " ", "d", "o", " ", "I", " ">>,
     <<"s", "h", "o", "u", "l", "d", " ", "I", " ">>,
     <<"w", "h", "a", "t", " ", "i", "s", " ", "t", "h", "e", " ", "d", "i", "f", "f", "e", "r", "e", "n", "c", "e", " ", "b", "e", "t", "w", "e", "e", "n", " ">>,
     <<"l", "o", "a", "n", " ", "a", "n", "d", " ">>,
     <<" ", "v", "s", " ">>,
     <<"c", "a", "l", "c", "u", "l", "a", "t", "e", " ">>,
     <<"c", "r", "e", "d", "i", "t", " ", "s", "c", "o", "r", "e">>,
     <<"w", "o", "r", "k", "-", "s", "t", "u", "d", "y">>,
     <<"?">>}

RECURSIVE Concat(_)
Concat(parts) == IF parts = <<>> THEN <<>> ELSE Head(parts) \o Concat(Tail(parts))

Questions == {Concat(parts) : parts \in SeqsUpTo(Phrases, MaxPhrases)}

InitQuestion ==
    /\ question \in Questions
    /\ knowledge_base = SampleGlossary
    /\ dispatch = NotRun
    /\ result = NotRun
    /\ budget = None
    /\ analysis = NotRun
    /\ screen = <<>>
    /\ category = ""
    /\ general = NoResult
    /\ db = init_db

\* answer = process_question(question, knowledge_base)
ProcessQuestion ==
    /\ dispatch = NotRun
    /\ dispatch' = process_question(question)
    /\ result' = Returned(Return(dispatch', knowledge_base))
    /\ UNCHANGED <<db, question, knowledge_base, budget, analysis, screen, category, general>>

NextQuestion == ProcessQuestion

SpecQuestion == InitQuestion /\ [][NextQuestion]_vars

(***************************************************************************)
(* The knowledge assistant as a state machine: a question is put to        *)
(* process_question with a glossary the loader may have read.              *)
(***************************************************************************)
AskTriggers ==
    {<<>>, <<"W", "h", "a", "t", " ", "i", "s", " ", "a", " ">>, <<"T", "e", "l", "l", " ", "m", "e", " ", "a", "b", "o", "u", "t", " ", "t", "h", "e", " ">>, <<"c", "o", "m", "p", "a", "r", "e", " ">>, <<"h", "o", "w", " ", "t", "o", " ">>,
     <<"H", "o", "w", " ", "d", "o", " ", "I", " ">>, <<"i", "s", " ", "i", "t", " ", "w", "i", "s", "e", " ", "t", "o", " ">>, <<"c", "a", "l", "c", "u", "l", "a", "t", "e", " ">>}
AskSubjects ==
    {<<"c", "r", "e", "d", "i", "t", " ", "s", "c", "o", "r", "e">>, <<"C", "r", "e", "d", "i", "t", " ", "S", "c", "o", "r", "e", " ", "a", "n", "d", " ", "F", "I", "C", "O">>, <<"l", "o", "a", "n", " ", "v", "s", " ", "b", "u", "d", "g", "e", "t">>, <<"b", "u", "d", "g", "e", "t">>,
     <<"w", "o", "r", "k", "-", "s", "t", "u", "d", "y">>, <<"A", "s", "d", "f", " ", "j", "k", "l", ";">>, <<"m", "y", " ", "F", "I", "C", "O", " ", "r", "a", "t", "i", "n", "g">>}
AskTails == {<<>>, <<"?">>}
AskQuestions ==
    {trigger \o subject \o tail :
        trigger \in AskTriggers, subject \in AskSubjects, tail \in AskTails}

InitAsk ==
    /\ question \in AskQuestions
    /\ knowledge_base \in Glossaries
    /\ dispatch = NotRun
    /\ result = NotRun
    /\ budget = None
    /\ analysis = NotRun
    /\ screen = <<>>
    /\ category = ""
    /\ general = NoResult
    /\ db = init_db

SpecAsk == InitAsk /\ [][NextQuestion]_vars

(***************************************************************************)
(* The term resolver and the answer functions as a state machine: one of   *)
(* them is called with phrases and a glossary.                             *)
(***************************************************************************)
DirectCalls ==
    {Call("find_best_match", <<term>>) : term \in TermInputs}
    \cup {Call("answer_definition_question", <<term>>) : term \in TermInputs}
    \cup {Call("answer_comparison_question", <<term1, term2>>) :
             term1 \in TermInputs, term2 \in TermInputs}

InitCall ==
    /\ dispatch \in DirectCalls
    /\ knowledge_base \in Glossaries
    /\ result = NotRun
    /\ question = <<>>
    /\ budget = None
    /\ analysis = NotRun
    /\ screen = <<>>
    /\ category = ""
    /\ general = NoResult
    /\ db = init_db

FindBestMatch ==
    /\ dispatch.handler = "find_best_match"
    /\ result = NotRun
    /\ result' = Returned(find_best_match(dispatch.args[1], knowledge_base))
    /\ UNCHANGED <<db, dispatch, knowledge_base, question, budget, analysis, screen,
                   category, general>>

AnswerDefinitionQuestion ==
    /\ dispatch.handler = "answer_definition_question"
    /\ result = NotRun
    /\ result' = Returned(answer_definition_question(dispatch.args[1], knowledge_base))
    /\ UNCHANGED <<db, dispatch, knowledge_base, question, budget, analysis, screen,
                   category, general>>

AnswerComparisonQuestion ==
    /\ dispatch.handler = "answer_comparison_question"
    /\ result = NotRun
    /\ result' = Returned(answer_comparison_question(dispatch.args[1], dispatch.args[2],
                                                     knowledge_base))
    /\ UNCHANGED <<db, dispatch, knowledge_base, question, budget, analysis, screen,
                   category, general>>

NextCall == FindBestMatch \/ AnswerDefinitionQuestion \/ AnswerComparisonQuestion

SpecCall == InitCall /\ [][NextCall]_vars

(***************************************************************************)
(* The answer composer as a state machine: the how-to answer or the        *)
(* general answer is asked for with a phrase and a glossary.               *)
(***************************************************************************)
\* an entry with a student context and neither how_to nor aliases
Debt ==
    [key |-> <<"D", "e", "b", "t">>,
     value |-> [definition |-> <<"m", "o", "n", "e", "y", " ", "o", "w", "e", "d", " ", "t", "o", " ", "a", " ", "l", "e", "n", "d", "e", "r">>,
                student_context |-> <<"m", "o", "s", "t", " ", "s", "t", "u", "d", "e", "n", "t", " ", "d", "e", "b", "t", " ", "i", "s", " ", "l", "o", "a", "n", " ", "d", "e", "b", "t">>]]

ComposeEntries == {CreditScore, LowercaseScore, CreditReport, Loan, Budget, Debt}

ComposeGlossaries ==
    {kb \in SeqsUpTo(ComposeEntries, MaxTerms) :
        \A i, j \in 1..Len(kb) : i # j => kb[i].key # kb[j].key}

\* actions as process_question hands them over (lowercased, stripped) and
\* as a direct caller may
ActionInputs ==
    {<<"c", "r", "e", "d", "i", "t">>, <<"c", "r", "e", "d", "i", "t", " ", "s", "c", "o", "r", "e">>, <<"s", "c", "o", "r", "e">>, <<"b", "u", "d", "g", "e", "t">>, <<"d", "e", "b", "t">>, <<"p", "l", "a", "n">>,
     <<"C", "r", "e", "d", "i", "t">>, <<"x", "y", "z">>, <<>>}

GeneralInputs ==
    {<<"c", "r", "e", "d", "i", "t">>, <<"d", "e", "b", "t">>, <<"D", "e", "b", "t", "?">>, <<"s", "c", "o", "r", "e">>, <<"p", "l", "a", "n">>, <<"m", "y", " ", "c", "r", "e", "d", "i", "t", " ", "s", "c", "o", "r", "e">>,
     <<"d", "e", "b", "t", " ", "o", "r", " ", "l", "o", "a", "n">>, <<"c", "r", "e", "d", "i", "t", " ", "c", "r", "e", "d", "i", "t">>, <<"i", "s", " ", "a", " ", "l", "o", "a", "n", " ", "a", " ", "d", "e", "b", "t">>, <<"a", "n">>, <<"x", "y", "z">>, <<>>}

ComposeCalls ==
    {Call("answer_how_to_question", <<action>>) : action \in ActionInputs}
    \cup {Call("answer_general_question", <<q>>) : q \in GeneralInputs}

InitCompose ==
    /\ dispatch \in ComposeCalls
    /\ knowledge_base \in ComposeGlossaries
    /\ result = NotRun
    /\ question = <<>>
    /\ budget = None
    /\ analysis = NotRun
    /\ screen = <<>>
    /\ category = ""
    /\ general = NoResult
    /\ db = init_db

AnswerHowToQuestion ==
    /\ dispatch.handler = "answer_how_to_question"
    /\ result = NotRun
    /\ result' = Returned(answer_how_to_question(dispatch.args[1], knowledge_base))
    /\ UNCHANGED <<db, dispatch, knowledge_base, question, budget, analysis, screen,
                   category, general>>

AnswerGeneralQuestion ==
    /\ dispatch.handler = "answer_general_question"
    /\ result = NotRun
    /\ result' = Returned(answer_general_question(dispatch.args[1], knowledge_base))
    /\ UNCHANGED <<db, dispatch, knowledge_base, question, budget, analysis, screen,
                   category, general>>

NextCompose == AnswerHowToQuestion \/ AnswerGeneralQuestion

SpecCompose == InitCompose /\ [][NextCompose]_vars

(***************************************************************************)
(* The budget store as a state machine: Budget.save is called on a Budget  *)
(* object, new or read from the store, and may raise at any statement.     *)
(***************************************************************************)
UserIds == {1, 2}

SaveLines ==
    {[category |-> "Housing", amount |-> 10], [category |-> "Housing", amount |-> 20],
     [category |-> "Groceries", amount |-> 10]}
SaveSources == {[source |-> "Part-time Job", amount |-> 20]}

\* budgets saved earlier
StoredBudgets ==
    {NewBudget(1, 20, 5,
               <<[category |-> "Housing", amount |-> 10],
                 [category |-> "Groceries", amount |-> 10]>>,
               <<[source |-> "Part-time Job", amount |-> 20]>>, NoId),
     NewBudget(2, 20, 5, <<[category |-> "Housing", amount |-> 20]>>, <<>>, NoId),
     NewBudget(1, 30, 0, <<>>, <<[source |-> "Part-time Job", amount |-> 20]>>, NoId)}

\* the tables after each of the budgets has been saved, in order
RECURSIVE StoreAfter(_)
StoreAfter(saved) ==
    IF saved = <<>> THEN init_db
    ELSE Budget_save(saved[Len(saved)],
                     StoreAfter(SubSeq(saved, 1, Len(saved) - 1)), 0).db

Stores ==
    {StoreAfter(saved) :
        saved \in {s \in SeqsUpTo(StoredBudgets, 2) :
                      \A i, j \in 1..Len(s) : i # j => s[i] # s[j]}}

\* the objects save is called on: a new one of any user, or the object of
\* a stored budget with its attributes set anew
SaveObjects(store) ==
    {NewBudget(user_id, income, savings, expenses, income_sources, id) :
        user_id \in UserIds, income \in {20, 30}, savings \in {5},
        expenses \in SeqsUpTo(SaveLines, MaxLines),
        income_sources \in SeqsUpTo(SaveSources, 1),
        id \in {NoId} \cup {store.budgets[r].id : r \in 1..Len(store.budgets)}}

SaveCalls(store) ==
    {Call("Budget.save", <<self, fails>>) :
        self \in {o \in SaveObjects(store) :
                    \A r \in 1..Len(store.budgets) :
                        store.budgets[r].id = o.id => store.budgets[r].user_id = o.user_id},
        fails \in 0..(3 + MaxLines + 1 + 1)}

\* the call raised
Raised == [raised |-> TRUE]

InitSave ==
    /\ db \in Stores
    /\ dispatch \in {call \in SaveCalls(db) : call.args[2] <= FailurePoints(call.args[1])}
    /\ result = NotRun
    /\ question = <<>>
    /\ knowledge_base = <<>>
    /\ budget = None
    /\ analysis = NotRun
    /\ screen = <<>>
    /\ category = ""
    /\ general = NoResult

BudgetSave ==
    /\ dispatch.handler = "Budget.save"
    /\ result = NotRun
    /\ LET saved == Budget_save(dispatch.args[1], db, dispatch.args[2])
       IN  /\ db' = saved.db
           /\ result' = IF saved.raised THEN Raised ELSE Returned(saved.id)
    /\ UNCHANGED <<dispatch, knowledge_base, question, budget, analysis, screen,
                   category, general>>

NextSave == BudgetSave

SpecSave == InitSave /\ [][NextSave]_vars

(***************************************************************************)
(* A session as a state machine: the budget analyzer, the question         *)
(* answering and the term resolver are called again and again, in any      *)
(* order, on one budget and one glossary.                                  *)
(***************************************************************************)
SessionBudgets ==
    {None,
     [income |-> 2000, savings |-> 100,
      expenses |-> << [category |-> "Housing", amount |-> 700] >>],
     [income |-> 20, savings |-> 1,
      expenses |-> << [category |-> "Rent", amount |-> 10],
                      [category |-> "Groceries", amount |-> 2],
                      [category |-> "Housing", amount |-> 2] >>]}

SessionQuestions ==
    {<<"W", "h", "a", "t", " ", "i", "s", " ", "a", " ", "c", "r", "e", "d", "i", "t", " ", "s", "c", "o", "r", "e", "?">>, <<"h", "o", "w", " ", "t", "o", " ", "b", "u", "d", "g", "e", "t">>, <<"c", "o", "m", "p", "a", "r", "e", " ", "l", "o", "a", "n", " ", "v", "s", " ", "b", "u", "d", "g", "e", "t">>,
     <<"c", "r", "e", "d", "i", "t">>}

SessionGlossaries ==
    {<<>>, SampleGlossary, <<Loan, CreditScore>>, <<CreditScore, CreditReport>>,
     <<LowercaseScore, FicoScore>>}

InitSession ==
    /\ budget \in SessionBudgets
    /\ knowledge_base \in SessionGlossaries
    /\ analysis = NotRun
    /\ question = <<>>
    /\ dispatch = NotRun
    /\ result = NotRun
    /\ screen = <<>>
    /\ category = ""
    /\ general = NoResult
    /\ db = init_db

\* analyze_budget with a change it would make to the lines of the budget:
\* the categories replaced by the general categories they are grouped by
CallAnalyzeBudgetGroupsInPlace ==
    /\ analysis' = analyze_budget(budget)
    /\ budget' = IF budget = None THEN None
                 ELSE [budget EXCEPT !.expenses =
                          [i \in 1..Len(budget.expenses) |->
                              [budget.expenses[i] EXCEPT !.category =
                                  map_to_general_category(budget.expenses[i].category)]]]
    /\ UNCHANGED <<db, screen, category, general, question, dispatch,
                   knowledge_base, result>>

\* analyze_budget(budget): reads the budget and builds the analysis
CallAnalyzeBudget ==
    /\ analysis' = analyze_budget(budget)
    /\ UNCHANGED <<db, budget, screen, category, general, question, dispatch,
                   knowledge_base, result>>

\* process_question(question, knowledge_base)
CallProcessQuestion ==
    \E q \in SessionQuestions :
        /\ question' = q
        /\ dispatch' = process_question(q)
        /\ result' = Returned(Return(dispatch', knowledge_base))
        /\ UNCHANGED <<db, knowledge_base, budget, analysis, screen, category, general>>

\* find_best_match(term, knowledge_base)
CallFindBestMatch ==
    \E term \in TermInputs :
        /\ dispatch' = Call("find_best_match", <<term>>)
        /\ result' = Returned(find_best_match(term, knowledge_base))
        /\ UNCHANGED <<db, question, knowledge_base, budget, analysis, screen, category,
                       general>>

NextSession == CallAnalyzeBudget \/ CallProcessQuestion \/ CallFindBestMatch

SpecSession == InitSession /\ [][NextSession]_vars

(***************************************************************************)
(* The budget service as a state machine: the users create and update      *)
(* their budgets and add expenses, again and again, on the empty store;    *)
(* any save may raise.                                                     *)
(***************************************************************************)
\* what prompt_for_float returns for each of n prompts answered with 0
ZeroAnswers(n) == [i \in 1..n |-> Returned(0)]

PlainIncome == [ZeroAnswers(Len(INCOME_SOURCES)) EXCEPT ![1] = Returned(1)]
PlainExpenses == [ZeroAnswers(Len(EXPENSE_CATEGORIES)) EXCEPT ![1] = Returned(1)]
PlainPrompts ==
    [update |-> Returned(TRUE), income |-> PlainIncome, savings |-> Returned(1),
     expenses |-> PlainExpenses]

\* every prompt answered: amounts for the first and the last category
CompletePrompts ==
    {[PlainPrompts EXCEPT !.expenses =
         [ZeroAnswers(Len(EXPENSE_CATEGORIES)) EXCEPT
             ![1] = Returned(first), ![Len(EXPENSE_CATEGORIES)] = Returned(last)]] :
        first \in 0..1, last \in 0..1}

\* the user declines the update or backs out at one prompt; the prompts
\* that are not reached are left as in PlainPrompts
BackOutPrompts ==
    {[PlainPrompts EXCEPT !.update = answer] : answer \in {None, Returned(FALSE)}}
    \cup {[PlainPrompts EXCEPT !.income = [PlainIncome EXCEPT ![i] = None]] :
             i \in {1, Len(INCOME_SOURCES)}}
    \cup {[PlainPrompts EXCEPT !.savings = None]}
    \cup {[PlainPrompts EXCEPT !.expenses = [PlainExpenses EXCEPT ![i] = None]] :
             i \in {1, Len(EXPENSE_CATEGORIES)}}

CreatePrompts == CompletePrompts \cup BackOutPrompts

\* the first category, the last, or Back; an amount or None; add, replace
\* or Back
AddPrompts ==
    [category : {1, Len(EXPENSE_CATEGORIES), Len(EXPENSE_CATEGORIES) + 1},
     amount : {None, Returned(1), Returned(2)},
     choice : {1, 2, 3}]

\* the prompts add_expense puts to the user, in order, given the answers
AddPromptsPut(store, user_id, prompts) ==
    LET existing == get_latest_by_user_id(store, user_id)
        chosen == prompt_for_selection(EXPENSE_CATEGORIES, prompts.category)
    IN  IF existing = None THEN {}
        ELSE IF chosen = None THEN {"category"}
        ELSE IF prompts.amount = None THEN {"category", "amount"}
        ELSE IF \E i \in 1..Len(existing.expenses) :
                   existing.expenses[i].category = chosen.returned
        THEN {"category", "amount", "choice"}
        ELSE {"category", "amount"}

\* the first user gives every answer; another user of the store answers
\* plainly or declines
CreatePromptsOf(user_id) ==
    IF user_id = 1 THEN CreatePrompts
    ELSE {PlainPrompts, [PlainPrompts EXCEPT !.update = Returned(FALSE)]}

AddPromptsOf(user_id) ==
    IF user_id = 1 THEN AddPrompts
    ELSE {[category |-> 1, amount |-> Returned(1), choice |-> 1]}

\* the statements at which a save is made to raise
SaveFailures == {0, 2}

InitBudget ==
    /\ db = init_db
    /\ dispatch = NotRun
    /\ result = NotRun
    /\ question = <<>>
    /\ knowledge_base = <<>>
    /\ budget = None
    /\ analysis = NotRun
    /\ screen = <<>>
    /\ category = ""
    /\ general = NoResult

CreateUpdateBudget ==
    \E user_id \in UserIds, fails \in SaveFailures : \E prompts \in CreatePromptsOf(user_id) :
        \* the confirmation is asked for when a budget exists
        /\ get_latest_by_user_id(db, user_id) = None => prompts.update = Returned(TRUE)
        /\ db' = create_update_budget(user_id, db, prompts, fails)
        /\ dispatch' = Call("create_update_budget", <<user_id, prompts>>)
        /\ result' = Returned(None)
        /\ UNCHANGED <<question, knowledge_base, budget, analysis, screen, category,
                       general>>

AddExpense ==
    \E user_id \in UserIds, fails \in SaveFailures : \E prompts \in AddPromptsOf(user_id) :
        \* a prompt that is not put has its first answer
        /\ "category" \notin AddPromptsPut(db, user_id, prompts) => prompts.category = 1
        /\ "amount" \notin AddPromptsPut(db, user_id, prompts) => prompts.amount = Returned(1)
        /\ "choice" \notin AddPromptsPut(db, user_id, prompts) => prompts.choice = 1
        /\ db' = add_expense(user_id, db, prompts, fails).db
        /\ \A r \in 1..Len(db'.expenses) : db'.expenses[r].amount <= MaxAmount
        /\ dispatch' = Call("add_expense", <<user_id, prompts>>)
        /\ result' = IF add_expense(user_id, db, prompts, fails).raised
                     THEN Raised ELSE Returned(None)
        /\ UNCHANGED <<question, knowledge_base, budget, analysis, screen, category,
                       general>>

NextBudget == CreateUpdateBudget \/ AddExpense

SpecBudget == InitBudget /\ [][NextBudget]_vars

(***************************************************************************)
(* The goals service as a state machine: the users set goals and update    *)
(* their progress, again and again, on the empty store; a save may raise,  *)
(* and the clock may or may not have moved between two inserts.            *)
(***************************************************************************)
\* two of GOAL_CATEGORIES
GoalTitles == {<<"E", "m", "e", "r", "g", "e", "n", "c", "y", " ", "F", "u", "n", "d">>, <<"L", "o", "a", "n", " ", "P", "a", "y", "m", "e", "n", "t">>}

\* what prompt_for_goal_details returns when the user backs out
NoDetails ==
    [title |-> None, target_amount |-> None, current_amount |-> None,
     deadline |-> None]

PlainDetails ==
    [title |-> Returned(<<"E", "m", "e", "r", "g", "e", "n", "c", "y", " ", "F", "u", "n", "d">>), target_amount |-> Returned(2),
     current_amount |-> Returned(0), deadline |-> None]

GoalDetails ==
    {NoDetails}
    \cup {[PlainDetails EXCEPT !.title = Returned(title)] : title \in GoalTitles}

\* the first user gives every answer, another user of the store the plain
\* ones
GoalDetailsOf(user_id) ==
    IF user_id = 1 THEN GoalDetails ELSE {PlainDetails}

\* the number chosen in the list of n goals, n + 1 being Back, and the
\* amount; the amount is not asked for after Back or without goals
ProgressPrompts(n) ==
    {prompts \in [selection : 1..(n + 1), amount : {None, Returned(1), Returned(2)}] :
        (n = 0 \/ prompts.selection = n + 1) => prompts.amount = Returned(1)}

ProgressPromptsOf(user_id, n) ==
    IF user_id = 1 THEN ProgressPrompts(n)
    ELSE {[selection |-> 1, amount |-> Returned(1)]}

\* the time of the last insert
LatestCreatedAt(store) ==
    IF store.goals = <<>> THEN 1
    ELSE store.goals[Len(store.goals)].created_at

InitGoals ==
    /\ db = init_db
    /\ dispatch = NotRun
    /\ result = NotRun
    /\ screen = <<>>
    /\ question = <<>>
    /\ knowledge_base = <<>>
    /\ budget = None
    /\ analysis = NotRun
    /\ category = ""
    /\ general = NoResult

SetNewGoal ==
    \E user_id \in UserIds, fails \in {0, 1},
       now \in {LatestCreatedAt(db), LatestCreatedAt(db) + 1} :
       \E details \in GoalDetailsOf(user_id) :
          /\ Len(db.goals) < MaxGoals
          /\ LET done == set_new_goal(user_id, db, details, now, fails)
             IN  /\ db' = done.db
                 /\ screen' = <<done.displayed>>
          /\ dispatch' = Call("set_new_goal", <<user_id, details>>)
          /\ result' = Returned(None)
          /\ UNCHANGED <<question, knowledge_base, budget, analysis, category, general>>

UpdateGoalProgress ==
    \E user_id \in UserIds, fails \in {0, 1} :
       \E goals \in get_all_by_user_id(db, user_id) :
          \E prompts \in ProgressPromptsOf(user_id, Len(goals)) :
             /\ LET done == update_goal_progress(user_id, db, goals, prompts, fails)
                IN  /\ db' = done.db
                    /\ screen' = <<done.displayed>>
             /\ dispatch' = Call("update_goal_progress", <<user_id, prompts, goals>>)
             /\ result' = Returned(None)
             /\ UNCHANGED <<question, knowledge_base, budget, analysis, category,
                            general>>

NextGoals == SetNewGoal \/ UpdateGoalProgress

SpecGoals == InitGoals /\ [][NextGoals]_vars

(***************************************************************************)
(* What the claims are stated with.  These definitions restate the         *)
(* specification; they do not use the operators that model the code.       *)
(***************************************************************************)
Analyzed == analysis # NotRun
Present == budget # None

GeneralCategories ==
    {"Housing", "Food", "Transportation", "Education", "Entertainment", "Other"}

StatedThreshold ==
    [Housing |-> 30, Food |-> 15, Transportation |-> 10, Education |-> 20,
     Entertainment |-> 5, Other |-> 10]

\* the partition of section 4.1
StatedBucket(c) ==
    CASE c \in {"Housing", "Rent", "Mortgage", "Dorm"} -> "Housing"
      [] c \in {"Groceries", "Dining Out", "Meal Plan"} -> "Food"
      [] c \in {"Textbooks", "School Supplies", "Tuition"} -> "Education"
      [] c \in {"Bus", "Car Payment", "Gas", "Parking", "Transportation"}
            -> "Transportation"
      [] c \in {"Entertainment", "Streaming", "Movies", "Games"} -> "Entertainment"
      [] OTHER -> "Other"

RECURSIVE SumOfFirst(_, _)
SumOfFirst(expenses, n) ==
    IF n = 0 THEN 0 ELSE SumOfFirst(expenses, n - 1) + expenses[n].amount

TotalOf(expenses) == SumOfFirst(expenses, Len(expenses))

RECURSIVE BucketSumOfFirst(_, _, _)
BucketSumOfFirst(expenses, g, n) ==
    IF n = 0 THEN 0
    ELSE BucketSumOfFirst(expenses, g, n - 1)
         + (IF StatedBucket(expenses[n].category) = g THEN expenses[n].amount ELSE 0)

BucketTotal(expenses, g) == BucketSumOfFirst(expenses, g, Len(expenses))
BucketOccurs(expenses, g) ==
    \E i \in 1..Len(expenses) : StatedBucket(expenses[i].category) = g

\* the bucket's share of income is strictly above its threshold
BucketExceeds(b, g) ==
    /\ BucketOccurs(b.expenses, g)
    /\ b.income > 0
    /\ BucketTotal(b.expenses, g) * 100 > StatedThreshold[g] * b.income

\* savings / income * 100 < pct, the ratio being 0 when there is no income
SavingsRatioBelow(b, pct) ==
    IF b.income > 0 THEN b.savings * 100 < pct * b.income ELSE 0 < pct

ConcernsFor(concerns, cat) == {i \in 1..Len(concerns) : concerns[i].category = cat}

\* C1: for a present budget, remaining = income - sum(expense amounts) - savings,
\* total_income is the budget's income and total_expenses the sum of the amounts.
C1_RemainingIdentity ==
    (Analyzed /\ Present) =>
        /\ analysis.total_income = budget.income
        /\ analysis.total_expenses = TotalOf(budget.expenses)
        /\ analysis.remaining =
              budget.income - TotalOf(budget.expenses) - budget.savings

C1_Witness ==
    /\ Analyzed /\ Present
    /\ Len(budget.expenses) = 2
    /\ budget.savings > 0
    /\ budget.expenses[1].amount > 0 /\ budget.expenses[2].amount > 0
    /\ analysis.remaining > 0

\* C2: concerns holds exactly one concern for every general category of the
\* expenses whose share of income is strictly above its threshold, with
\* excess = ratio - threshold and saving_potential = excess * income / 100,
\* plus one Savings concern (saving_potential 0) exactly when the savings
\* ratio is below 10; nothing else; the Savings concern is last.
C2_ConcernsExact ==
    (Analyzed /\ Present) =>
        LET concerns == analysis.concerns
            inc == budget.income
        IN  /\ \A g \in GeneralCategories :
                 /\ Cardinality(ConcernsFor(concerns, g)) =
                       (IF BucketExceeds(budget, g) THEN 1 ELSE 0)
                 /\ \A i \in ConcernsFor(concerns, g) :
                       LET over == BucketTotal(budget.expenses, g) * 100
                                   - StatedThreshold[g] * inc
                       IN  /\ concerns[i].excess.num * inc
                                = over * concerns[i].excess.den
                           /\ concerns[i].saving_potential.num * 100
                                = over * concerns[i].saving_potential.den
            /\ Cardinality(ConcernsFor(concerns, "Savings")) =
                  (IF SavingsRatioBelow(budget, 10) THEN 1 ELSE 0)
            /\ \A i \in ConcernsFor(concerns, "Savings") :
                  /\ i = Len(concerns)
                  /\ concerns[i].saving_potential = FromInt(0)
            /\ \A i \in 1..Len(concerns) :
                  concerns[i].category \in GeneralCategories \cup {"Savings"}

\* one bucket above its threshold, one exactly at it, and a savings shortfall
C2_Witness ==
    /\ Analyzed /\ Present
    /\ budget.income = 20 /\ budget.savings = 1
    /\ budget.expenses = << [category |-> "Rent", amount |-> 10],
                            [category |-> "Utilities", amount |-> 2] >>
    /\ Len(analysis.concerns) = 2
    /\ analysis.concerns[1].category = "Housing"
    /\ analysis.concerns[2].category = "Savings"

NonSavings(concerns) == SelectSeq(concerns, LAMBDA c : c.category # "Savings")

\* C3: recommendations = the balance recommendation (high warning below 0,
\* medium info at 0, low success above 0), the savings-rate recommendation,
\* one medium warning per non-Savings concern in the order of concerns, and
\* the two fixed low-priority tips last.
C3_RecommendationShape ==
    (Analyzed /\ Present) =>
        LET recs == analysis.recommendations
            over == NonSavings(analysis.concerns)
            rem == budget.income - TotalOf(budget.expenses) - budget.savings
        IN  /\ Len(recs) = 4 + Len(over)
            /\ <<recs[1].type, recs[1].priority>> =
                  (IF rem < 0 THEN <<"warning", "high">>
                   ELSE IF rem = 0 THEN <<"info", "medium">>
                   ELSE <<"success", "low">>)
            /\ recs[1].message[1] \in {"deficit", "balanced", "surplus"}
            /\ recs[2].message[1] \in {"savings_low", "savings_mid", "savings_ok"}
            /\ \A i \in 1..Len(over) :
                  /\ recs[2 + i].type = "warning"
                  /\ recs[2 + i].priority = "medium"
                  /\ recs[2 + i].message[1] = "overspend"
                  /\ recs[2 + i].message[2] = over[i].category
            /\ recs[Len(recs) - 1] =
                  [type |-> "tip", message |-> <<"student_discounts">>,
                   priority |-> "low"]
            /\ recs[Len(recs)] =
                  [type |-> "tip", message |-> <<"campus_facilities">>,
                   priority |-> "low"]

\* an exactly balanced budget with two overspent buckets and a Savings concern
C3_Witness ==
    /\ Analyzed /\ Present
    /\ analysis.remaining = 0
    /\ budget.income > 0
    /\ Len(analysis.concerns) = 3
    /\ analysis.concerns[3].category = "Savings"
    /\ Len(analysis.recommendations) = 6

\* tables that differ from BUDGET_THRESHOLDS in the Savings entry only
SavingsReconfigured ==
    {[BUDGET_THRESHOLDS EXCEPT !.Savings = v] : v \in {0, 5, 7, 20}}

\* C4: the savings-rate recommendation is a high warning below 5, a medium
\* info from 5 up to but not including 10, a low success from 10, and is the
\* same under every value configured for the Savings threshold.
C4_SavingsBands ==
    (Analyzed /\ Present) =>
        LET rec == analysis.recommendations[2]
        IN  /\ <<rec.type, rec.priority>> =
                  (IF SavingsRatioBelow(budget, 5) THEN <<"warning", "high">>
                   ELSE IF SavingsRatioBelow(budget, 10) THEN <<"info", "medium">>
                   ELSE <<"success", "low">>)
            /\ \A t \in SavingsReconfigured :
                  AnalyzeWith(budget, t).recommendations[2] = rec

\* a savings ratio of exactly 5
C4_Witness ==
    /\ Analyzed /\ Present
    /\ budget.income = 20 /\ budget.savings = 1
    /\ analysis.savings_ratio = FromInt(5)
    /\ analysis.recommendations[2].priority = "medium"

Budget2000 ==
    [income |-> 2000, savings |-> 100,
     expenses |-> << [category |-> "Housing", amount |-> 700] >>]

HousingConcernOf100 ==
    \E i \in 1..Len(analysis.concerns) :
        /\ analysis.concerns[i].category = "Housing"
        /\ analysis.concerns[i].current = FromInt(35)
        /\ analysis.concerns[i].threshold = 30
        /\ analysis.concerns[i].saving_potential = FromInt(100)

\* C5 as stated: income 2000, savings 100, Housing 700 gives savings_ratio 5,
\* a high-priority savings warning, and a Housing concern with
\* saving_potential 100.
C5_AsStated ==
    (Analyzed /\ budget = Budget2000) =>
        /\ analysis.savings_ratio = FromInt(5)
        /\ analysis.recommendations[2].type = "warning"
        /\ analysis.recommendations[2].priority = "high"
        /\ HousingConcernOf100

\* C5 amended: the same budget gives savings_ratio 5, a medium-priority
\* savings info (5 is in the band from 5 to 10), and a Housing concern
\* (35 above 30) with saving_potential 100.
C5_Amended ==
    (Analyzed /\ budget = Budget2000) =>
        /\ analysis.savings_ratio = FromInt(5)
        /\ analysis.recommendations[2].type = "info"
        /\ analysis.recommendations[2].priority = "medium"
        /\ \A i \in 1..Len(analysis.recommendations) :
              analysis.recommendations[i].message[1] # "savings_low"
        /\ HousingConcernOf100

C5_Witness ==
    /\ Analyzed /\ budget = Budget2000
    /\ Len(analysis.concerns) = 2

\* C6: with income 0 the analysis is produced, savings_ratio is 0, every
\* expense ratio is 0, there is no general-category concern, and
\* remaining = -(sum of expense amounts) - savings.
C6_ZeroIncome ==
    (Analyzed /\ Present /\ budget.income = 0) =>
        /\ "remaining" \in DOMAIN analysis
        /\ analysis.savings_ratio = FromInt(0)
        /\ \A i \in 1..Len(analysis.expense_ratios) :
              analysis.expense_ratios[i].value = FromInt(0)
        /\ \A i \in 1..Len(analysis.concerns) :
              analysis.concerns[i].category = "Savings"
        /\ analysis.remaining = 0 - TotalOf(budget.expenses) - budget.savings

C6_Witness ==
    /\ Analyzed /\ Present /\ budget.income = 0
    /\ budget.savings > 0
    /\ Len(budget.expenses) = 2
    /\ budget.expenses[1].amount > 0
    /\ Len(analysis.expense_ratios) = 2

NumericFields ==
    {"total_income", "total_expenses", "savings", "remaining", "savings_ratio",
     "expense_ratios", "grouped_expenses", "concerns"}

\* C7: for an absent budget the analysis has exactly one recommendation, of
\* type error and priority high, and none of the numeric fields.
C7_AbsentBudget ==
    (Analyzed /\ ~Present) =>
        /\ Len(analysis.recommendations) = 1
        /\ analysis.recommendations[1].type = "error"
        /\ analysis.recommendations[1].priority = "high"
        /\ DOMAIN analysis \cap NumericFields = {}

C7_Witness ==
    /\ Analyzed /\ ~Present
    /\ "recommendations" \in DOMAIN analysis

\* C8: map_to_general_category returns, for every string, the bucket of the
\* fixed partition, Other for every string outside the five named groups,
\* and always one of the six general buckets.
C8_MapperPartition ==
    (general # NoResult) =>
        /\ general = StatedBucket(category)
        /\ general \in GeneralCategories

C8_Witness ==
    /\ category = "Utilities"
    /\ general = "Other"

HeaderPriority ==
    [t \in {<<"Important Actions:">>, <<"Consider These Changes:">>,
            <<"Helpful Tips:">>} |->
        IF t = <<"Important Actions:">> THEN "high"
        ELSE IF t = <<"Consider These Changes:">> THEN "medium" ELSE "low"]

IsHeader(item) == item.out = "print" /\ item.text \in DOMAIN HeaderPriority
IsTitle(item) == item.out = "display_title"
IsRendered(item) == ~IsHeader(item) /\ ~IsTitle(item)

\* the heading under which item i of the screen stands
RECURSIVE GroupOf(_, _)
GroupOf(scr, i) ==
    IF i = 0 THEN "none"
    ELSE IF IsHeader(scr[i]) THEN HeaderPriority[scr[i].text]
    ELSE GroupOf(scr, i - 1)

PriorityRank(p) == IF p = "high" THEN 1 ELSE IF p = "medium" THEN 2 ELSE 3

\* the text a rendered item shows
ShownMessage(item) == IF item.out = "print" THEN Tail(item.text) ELSE item.text

RECURSIVE ShownUnder(_, _, _)
ShownUnder(scr, p, i) ==
    IF i > Len(scr) THEN <<>>
    ELSE (IF IsRendered(scr[i]) /\ GroupOf(scr, i) = p
          THEN <<ShownMessage(scr[i])>> ELSE <<>>)
         \o ShownUnder(scr, p, i + 1)

RECURSIVE MessagesOf(_, _, _)
MessagesOf(recs, p, i) ==
    IF i > Len(recs) THEN <<>>
    ELSE (IF recs[i].priority = p THEN <<recs[i].message>> ELSE <<>>)
         \o MessagesOf(recs, p, i + 1)

Displayed == screen # <<>>
HasRecommendations ==
    /\ analysis # None
    /\ "recommendations" \in DOMAIN analysis
    /\ analysis.recommendations # <<>>

\* C9: every recommendation is rendered exactly once, all high ones before
\* all medium ones before all low ones, and within a priority in the order
\* of the recommendations list.
C9_DisplayOrder ==
    (Displayed /\ HasRecommendations) =>
        LET recs == analysis.recommendations
            shown == {i \in 1..Len(screen) : IsRendered(screen[i])}
        IN  /\ Cardinality(shown) = Len(recs)
            /\ \A i, j \in shown :
                  i < j => PriorityRank(GroupOf(screen, i))
                              <= PriorityRank(GroupOf(screen, j))
            /\ \A p \in {"high", "medium", "low"} :
                  ShownUnder(screen, p, 1) = MessagesOf(recs, p, 1)

\* a list generated low, high, medium
C9_Witness ==
    /\ Displayed /\ HasRecommendations
    /\ Len(analysis.recommendations) = 3
    /\ analysis.recommendations[1].priority = "low"
    /\ analysis.recommendations[2].priority = "high"
    /\ analysis.recommendations[3].priority = "medium"
    /\ analysis.recommendations[2].message # analysis.recommendations[3].message
    /\ Len(screen) = 7

(***************************************************************************)
(* The pattern groups of section 4.3, stated as conditions on the text:    *)
(* a trigger phrase followed by a phrase of lowercase letters and spaces.  *)
(***************************************************************************)
PhraseAt(text, i) == i <= Len(text) /\ InClass(text[i])
PhraseBetween(text, i, j) == i <= j /\ \A k \in i..j : PhraseAt(text, k)

\* trigger, then a phrase
TriggerThenPhrase(text, trigger) ==
    \E i \in 1..Len(text) :
        LitAt(text, i, trigger) /\ PhraseAt(text, i + Len(trigger))

\* trigger, a phrase, the connective, a phrase
TriggerPhraseConnectivePhrase(text, trigger, connective) ==
    \E i \in 1..Len(text) :
        /\ LitAt(text, i, trigger)
        /\ \E j \in (i + Len(trigger) + 1)..Len(text) :
              /\ LitAt(text, j, connective)
              /\ PhraseBetween(text, i + Len(trigger), j - 1)
              /\ PhraseAt(text, j + Len(connective))

\* a phrase, the connective, a phrase
PhraseConnectivePhrase(text, connective) ==
    \E j \in 2..Len(text) :
        /\ LitAt(text, j, connective)
        /\ PhraseAt(text, j - 1)
        /\ PhraseAt(text, j + Len(connective))

DefinitionTriggers ==
        {<<"w", "h", "a", "t", " ", "i", "s", " ">>,
         <<"d", "e", "f", "i", "n", "e", " ">>,
         <<"e", "x", "p", "l", "a", "i", "n", " ">>,
         <<"t", "e", "l", "l", " ", "m", "e", " ", "a", "b", "o", "u", "t", " ">>}
HowToTriggers ==
        {<<"h", "o", "w", " ", "d", "o", " ", "I", " ">>,
         <<"h", "o", "w", " ", "t", "o", " ">>,
         <<"h", "o", "w", " ", "c", "a", "n", " ", "I", " ">>,
         <<"w", "a", "y", "s", " ", "t", "o", " ">>}
RecommendationTriggers ==
        {<<"s", "h", "o", "u", "l", "d", " ", "I", " ">>,
         <<"i", "s", " ", "i", "t", " ", "g", "o", "o", "d", " ", "t", "o", " ">>,
         <<"i", "s", " ", "i", "t", " ", "b", "e", "t", "t", "e", "r", " ", "t", "o", " ">>,
         <<"i", "s", " ", "i", "t", " ", "b", "e", "s", "t", " ", "t", "o", " ">>,
         <<"i", "s", " ", "i", "t", " ", "w", "i", "s", "e", " ", "t", "o", " ">>,
         <<"i", "s", " ", "i", "t", " ", "a", "d", "v", "i", "s", "a", "b", "l", "e", " ", "t", "o", " ">>,
         <<"w", "h", "a", "t", "'", "s", " ", "t", "h", "e", " ", "b", "e", "s", "t", " ", "w", "a", "y", " ", "t", "o", " ">>}
CalculationTriggers ==
        {<<"h", "o", "w", " ", "m", "u", "c", "h", " ">>,
         <<"h", "o", "w", " ", "m", "a", "n", "y", " ">>,
         <<"c", "a", "l", "c", "u", "l", "a", "t", "e", " ">>,
         <<"w", "h", "a", "t", " ", "p", "e", "r", "c", "e", "n", "t", "a", "g", "e", " ">>}
DifferenceTriggers ==
        {<<"w", "h", "a", "t", " ", "i", "s", " ", "t", "h", "e", " ", "d", "i", "f", "f", "e", "r", "e", "n", "c", "e", " ", "b", "e", "t", "w", "e", "e", "n", " ">>,
         <<"w", "h", "a", "t", "'", "s", " ", "t", "h", "e", " ", "d", "i", "f", "f", "e", "r", "e", "n", "c", "e", " ", "b", "e", "t", "w", "e", "e", "n", " ">>}
CompareConnectives ==
        {<<" ", "t", "o", " ">>,
         <<" ", "a", "n", "d", " ">>,
         <<" ", "w", "i", "t", "h", " ">>}
VersusConnectives ==
        {<<" ", "v", "s", " ">>,
         <<" ", "v", "s", ".", " ">>}

GroupMatches(g, text) ==
    CASE g = "Definition" ->
            \E t \in DefinitionTriggers : TriggerThenPhrase(text, t)
      [] g = "Comparison" ->
            \/ \E t \in DifferenceTriggers :
                  TriggerPhraseConnectivePhrase(text, t, <<" ", "a", "n", "d", " ">>)
            \/ \E c \in CompareConnectives :
                  TriggerPhraseConnectivePhrase(text, <<"c", "o", "m", "p", "a", "r", "e", " ">>, c)
            \/ \E c \in VersusConnectives : PhraseConnectivePhrase(text, c)
      [] g = "HowTo" ->
            \E t \in HowToTriggers : TriggerThenPhrase(text, t)
      [] g = "Recommendation" ->
            \E t \in RecommendationTriggers : TriggerThenPhrase(text, t)
      [] g = "Calculation" ->
            \E t \in CalculationTriggers : TriggerThenPhrase(text, t)

GroupOrder == <<"Definition", "Comparison", "HowTo", "Recommendation", "Calculation">>

HandlerOf ==
    [Definition |-> "answer_definition_question",
     Comparison |-> "answer_comparison_question",
     HowTo |-> "answer_how_to_question",
     Recommendation |-> "answer_recommendation_question",
     Calculation |-> "answer_calculation_question"]

Processed == dispatch # NotRun

StatedDefinitionTriggers ==
    {<<"w", "h", "a", "t", " ", "i", "s", " ">>, <<"w", "h", "a", "t", " ", "a", "r", "e", " ">>, <<"d", "e", "f", "i", "n", "e", " ">>, <<"e", "x", "p", "l", "a", "i", "n", " ">>, <<"t", "e", "l", "l", " ", "m", "e", " ", "a", "b", "o", "u", "t", " ">>}
StatedHowToTriggers == {<<"h", "o", "w", " ", "d", "o", " ", "i", " ">>, <<"h", "o", "w", " ", "t", "o", " ">>, <<"h", "o", "w", " ", "c", "a", "n", " ", "i", " ">>, <<"w", "a", "y", "s", " ", "t", "o", " ">>}
StatedRecommendationTriggers ==
    {<<"s", "h", "o", "u", "l", "d", " ", "i", " ">>, <<"i", "s", " ", "i", "t", " ", "g", "o", "o", "d", " ", "t", "o", " ">>, <<"i", "s", " ", "i", "t", " ", "b", "e", "t", "t", "e", "r", " ", "t", "o", " ">>, <<"i", "s", " ", "i", "t", " ", "b", "e", "s", "t", " ", "t", "o", " ">>,
     <<"i", "s", " ", "i", "t", " ", "w", "i", "s", "e", " ", "t", "o", " ">>, <<"i", "s", " ", "i", "t", " ", "a", "d", "v", "i", "s", "a", "b", "l", "e", " ", "t", "o", " ">>, <<"w", "h", "a", "t", "'", "s", " ", "t", "h", "e", " ", "b", "e", "s", "t", " ", "w", "a", "y", " ", "t", "o", " ">>}

StatedGroupMatches(g, text) ==
    CASE g = "Definition" ->
            \E t \in StatedDefinitionTriggers : TriggerThenPhrase(text, t)
      [] g = "Comparison" ->
            \/ TriggerPhraseConnectivePhrase(text, <<"d", "i", "f", "f", "e", "r", "e", "n", "c", "e", " ", "b", "e", "t", "w", "e", "e", "n", " ">>, <<" ", "a", "n", "d", " ">>)
            \/ \E c \in CompareConnectives :
                  TriggerPhraseConnectivePhrase(text, <<"c", "o", "m", "p", "a", "r", "e", " ">>, c)
            \/ \E c \in VersusConnectives : PhraseConnectivePhrase(text, c)
      [] g = "HowTo" ->
            \E t \in StatedHowToTriggers : TriggerThenPhrase(text, t)
      [] g = "Recommendation" ->
            \E t \in StatedRecommendationTriggers : TriggerThenPhrase(text, t)
      [] g = "Calculation" ->
            \E t \in CalculationTriggers : TriggerThenPhrase(text, t)

\* the longest stretch of lowercase letters and spaces from position i on
PhraseFrom(text, i) ==
    SubSeq(text, i, i + Cardinality({j \in i..Len(text) : PhraseBetween(text, i, j)}) - 1)

\* x is the phrase that follows an occurrence of the trigger, trimmed
FollowsTrigger(text, trigger, x) ==
    \E i \in 1..Len(text) :
        /\ LitAt(text, i, trigger)
        /\ PhraseAt(text, i + Len(trigger))
        /\ x = Strip(PhraseFrom(text, i + Len(trigger)))

\* C11: a question with 'how do I X' or 'how can I X', in any letter case,
\* that no Definition or Comparison pattern matches, is answered by
\* answer_how_to_question with the action X.
C11_HowDoIAnyCase ==
    Processed =>
        LET text == Lower(question)
        IN  \A t \in {<<"h", "o", "w", " ", "d", "o", " ", "i", " ">>, <<"h", "o", "w", " ", "c", "a", "n", " ", "i", " ">>} :
                ( /\ TriggerThenPhrase(text, t)
                  /\ ~StatedGroupMatches("Definition", text)
                  /\ ~StatedGroupMatches("Comparison", text) )
                => /\ dispatch.handler = "answer_how_to_question"
                   /\ \E h \in StatedHowToTriggers :
                         FollowsTrigger(text, h, dispatch.args[1])

\* C12: a question with 'should I X', in any letter case, that no pattern of
\* an earlier group matches, is answered by answer_recommendation_question
\* with the action X.
C12_ShouldIAnyCase ==
    Processed =>
        LET text == Lower(question)
        IN  ( /\ TriggerThenPhrase(text, <<"s", "h", "o", "u", "l", "d", " ", "i", " ">>)
              /\ ~StatedGroupMatches("Definition", text)
              /\ ~StatedGroupMatches("Comparison", text)
              /\ ~StatedGroupMatches("HowTo", text) )
            => /\ dispatch.handler = "answer_recommendation_question"
               /\ FollowsTrigger(text, <<"s", "h", "o", "u", "l", "d", " ", "i", " ">>, dispatch.args[1])

\* x is the subject of 'trigger (a |an |the )?X'
SubjectAfter(text, trigger, x) ==
    \/ FollowsTrigger(text, trigger, x)
    \/ \E article \in {<<"a", " ">>, <<"a", "n", " ">>, <<"t", "h", "e", " ">>} :
          FollowsTrigger(text, trigger \o article, x)

\* C13: a question with 'what are X' is answered by
\* answer_definition_question with the subject X, a leading a, an or the
\* left out, as one with 'what is X' is.
C13_WhatAreIsDefinition ==
    Processed =>
        LET text == Lower(question)
        IN  \A t \in {<<"w", "h", "a", "t", " ", "i", "s", " ">>, <<"w", "h", "a", "t", " ", "a", "r", "e", " ">>} :
                TriggerThenPhrase(text, t)
                => /\ dispatch.handler = "answer_definition_question"
                   /\ \E d \in StatedDefinitionTriggers :
                         SubjectAfter(text, d, dispatch.args[1])

\* C14: a question with 'difference between X and Y' is answered by
\* answer_comparison_question with the subjects X and Y, also when it reads
\* 'what is the difference between X and Y'.
C14_DifferenceIsComparison ==
    Processed =>
        LET text == Lower(question)
            trigger == <<"d", "i", "f", "f", "e", "r", "e", "n", "c", "e", " ", "b", "e", "t", "w", "e", "e", "n", " ">>
            connective == <<" ", "a", "n", "d", " ">>
        IN  TriggerPhraseConnectivePhrase(text, trigger, connective)
            => /\ dispatch.handler = "answer_comparison_question"
               /\ \E i \in 1..Len(text) :
                     /\ LitAt(text, i, trigger)
                     /\ \E j \in (i + Len(trigger) + 1)..Len(text) :
                           /\ LitAt(text, j, connective)
                           /\ PhraseBetween(text, i + Len(trigger), j - 1)
                           /\ dispatch.args[1] =
                                 Strip(SubSeq(text, i + Len(trigger), j - 1))
                           /\ dispatch.args[2] \in
                                 {Strip(SubSeq(text, j + Len(connective), k)) :
                                     k \in (j + Len(connective))..Len(text)}

\* the text without a leading a, an or the, and without one trailing '?'
WithoutArticle(text) ==
    IF LitAt(text, 1, <<"a", " ">>) THEN SubSeq(text, 3, Len(text))
    ELSE IF LitAt(text, 1, <<"a", "n", " ">>) THEN SubSeq(text, 4, Len(text))
    ELSE IF LitAt(text, 1, <<"t", "h", "e", " ">>) THEN SubSeq(text, 5, Len(text))
    ELSE text
WithoutQuestionMark(text) ==
    IF text # <<>> /\ text[Len(text)] = "?" THEN SubSeq(text, 1, Len(text) - 1) ELSE text

\* C16: the subject of a question that begins 'what is' is everything after
\* the trigger, lowercased and trimmed, without a leading a, an or the and
\* without the trailing '?', punctuation inside it kept ('work-study');
\* stated for subjects that begin with a letter and hold no further '?'.
C16_SubjectWholePhrase ==
    Processed =>
        LET text == Lower(question)
            trigger == <<"w", "h", "a", "t", " ", "i", "s", " ">>
            subject == WithoutQuestionMark(
                           WithoutArticle(SubSeq(text, Len(trigger) + 1, Len(text))))
        IN  ( /\ LitAt(text, 1, trigger)
              /\ subject # <<>> /\ subject[1] \in LowerSet
              /\ \A k \in 1..Len(subject) : subject[k] # "?" )
            => /\ dispatch.handler = "answer_definition_question"
               /\ dispatch.args = <<Strip(subject)>>

\* an answer string: literal text and the values substituted into it
IsAnswer(value) ==
    /\ DOMAIN value = {"template", "args"}
    /\ value.template \in STRING
    /\ \A i \in 1..Len(value.args) : value.args[i] \in Seq(STRING)
Answered == result # NotRun

\* the "not enough information" string of the General intent
NotEnoughInformation ==
    Fmt("I don't have enough information to answer that question. Please try asking about specific financial terms or concepts.", <<>>)

\* C15: process_question returns an answer string for every question and
\* glossary, and a question that none of the five pattern groups matches is
\* handed as typed, not lowercased, to answer_general_question.
C15_TotalAndGeneralRaw ==
    Processed =>
        /\ Answered /\ IsAnswer(result.returned)
        /\ (\A k \in 1..Len(GroupOrder) :
               ~StatedGroupMatches(GroupOrder[k], Lower(question)))
           => dispatch = Call("answer_general_question", <<question>>)

\* a question with capitals that no group matches, answered from a glossary
\* with terms
C15_Witness ==
    /\ Processed /\ Answered
    /\ \A k \in 1..Len(GroupOrder) : ~StatedGroupMatches(GroupOrder[k], Lower(question))
    /\ question # Lower(question)
    /\ knowledge_base # <<>>
    /\ dispatch.handler = "answer_general_question"
    /\ result.returned # NotEnoughInformation

(***************************************************************************)
(* Term resolution as section 4.4 words it: the five tiers.                *)
(***************************************************************************)
StatedAliases(entry) ==
    IF "aliases" \in DOMAIN entry.value THEN entry.value.aliases ELSE <<>>

QualifiesAt(tier, phrase, entry) ==
    CASE tier = 1 -> entry.key = phrase
      [] tier = 2 -> Lower(entry.key) = Lower(phrase)
      [] tier = 3 -> \E a \in 1..Len(StatedAliases(entry)) :
                        Lower(StatedAliases(entry)[a]) = Lower(phrase)
      [] tier = 4 -> In(Lower(phrase), Lower(entry.key))
      [] tier = 5 -> \E a \in 1..Len(StatedAliases(entry)) :
                        In(Lower(phrase), Lower(StatedAliases(entry)[a]))

\* the tiers at which some term of the glossary qualifies
TiersOf(phrase, kb) ==
    {tier \in 1..5 : \E i \in 1..Len(kb) : QualifiesAt(tier, phrase, kb[i])}

\* the entry qualifies at the lowest tier at which any term does
ResolvesTo(phrase, kb, entry) ==
    \E tier \in TiersOf(phrase, kb) :
        /\ \A other \in TiersOf(phrase, kb) : tier <= other
        /\ QualifiesAt(tier, phrase, entry)

Called(function) == result # NotRun /\ dispatch.handler = function

\* C17: find_best_match returns a term that qualifies at the lowest tier at
\* which any term of the glossary qualifies, whatever the order of the
\* glossary, and not-found exactly when no term qualifies at any tier; with
\* the glossary {Credit Score: aliases [FICO, ...]} 'fico' resolves to
\* 'Credit Score'.
C17_LowestTierWins ==
    Called("find_best_match") =>
        LET phrase == dispatch.args[1]
            kb == knowledge_base
        IN  /\ (TiersOf(phrase, kb) = {}) <=> (result.returned = NoneStr)
            /\ TiersOf(phrase, kb) # {}
               => \E i \in 1..Len(kb) :
                     /\ result.returned = kb[i].key
                     /\ ResolvesTo(phrase, kb, kb[i])
            /\ (kb = <<CreditScore>> /\ phrase = <<"f", "i", "c", "o">>)
               => result.returned = <<"C", "r", "e", "d", "i", "t", " ", "S", "c", "o", "r", "e">>

\* 'fico' is in the name of the first term and is an alias of the second:
\* the second is returned
C17_Witness ==
    /\ Called("find_best_match")
    /\ dispatch.args[1] = <<"f", "i", "c", "o">>
    /\ knowledge_base = <<FicoScore, CreditScore>>
    /\ result.returned = <<"C", "r", "e", "d", "i", "t", " ", "S", "c", "o", "r", "e">>

(***************************************************************************)
(* Answers as section 4.5 words them.                                      *)
(***************************************************************************)
\* the text stands among the values substituted into the answer
Contains(answer, text) == \E i \in 1..Len(answer.args) : In(text, answer.args[i])
\* how many of the substituted values are the text
Naming(answer, text) == Cardinality({i \in 1..Len(answer.args) : answer.args[i] = text})

\* the terms whose lowercased name, or one of whose lowercased aliases,
\* holds the subject
StatedMatches(subject, kb) ==
    {i \in 1..Len(kb) :
        \/ In(subject, Lower(kb[i].key))
        \/ \E a \in 1..Len(StatedAliases(kb[i])) :
              In(subject, Lower(StatedAliases(kb[i])[a]))}

DefinitionFallback(subject) ==
    Fmt("I don't have specific information about '{}'. Please try another financial term or check the term glossary.",
        <<subject>>)

\* C18: for a subject that is no key of the glossary,
\* answer_definition_question answers from the terms whose lowercased name
\* or alias holds the subject, each counted once: none, the fallback naming
\* the subject; one, that term's definition (and student_context if it has
\* one); two or more, a list naming each of them once and holding no
\* definition.  With a glossary of the one term T, the answer for T.lower()
\* holds T's definition.
C18_DefinitionByMatches ==
    Called("answer_definition_question") =>
        LET subject == dispatch.args[1]
            kb == knowledge_base
            answer == result.returned
            matches == StatedMatches(subject, kb)
        IN  /\ (\A i \in 1..Len(kb) : kb[i].key # subject) =>
                 /\ matches = {} => answer = DefinitionFallback(subject)
                 /\ \A i \in matches :
                       matches = {i} =>
                          /\ Contains(answer, kb[i].value.definition)
                          /\ "student_context" \in DOMAIN kb[i].value
                             => Contains(answer, kb[i].value.student_context)
                 /\ Cardinality(matches) >= 2 =>
                       /\ \A i \in matches : Naming(answer, kb[i].key) = 1
                       /\ Len(answer.args) = 1 + Cardinality(matches)
                       /\ \A i \in 1..Len(kb) : ~Contains(answer, kb[i].value.definition)
            /\ (Len(kb) = 1 /\ subject = Lower(kb[1].key))
               => Contains(answer, kb[1].value.definition)

\* 'credit' is in two aliases of Loan and in the name of Credit Score: the
\* list names each of the two terms once
C18_Witness ==
    /\ Called("answer_definition_question")
    /\ dispatch.args[1] = <<"c", "r", "e", "d", "i", "t">>
    /\ knowledge_base = <<Loan, CreditScore>>
    /\ result.returned.args = <<<<"c", "r", "e", "d", "i", "t">>, <<"L", "o", "a", "n">>, <<"C", "r", "e", "d", "i", "t", " ", "S", "c", "o", "r", "e">>>>

\* C19: a subject that equals the name of one term T up to letter case is
\* answered with T's definition, whatever other terms the glossary holds.
C19_LookupAnyCase ==
    Called("answer_definition_question") =>
        LET subject == dispatch.args[1]
            kb == knowledge_base
            named == {i \in 1..Len(kb) : Lower(kb[i].key) = Lower(subject)}
        IN  \A i \in named :
                named = {i} => Contains(result.returned, kb[i].value.definition)

ComparisonMissing(side) ==
    Fmt("I don't have information about '{}' to make a comparison.", <<side>>)

\* the text the term's comparison map stores for the other term
StoredComparison(entry, other) ==
    IF "comparison" \in DOMAIN entry.value
    THEN {entry.value.comparison[k].value :
             k \in {n \in 1..Len(entry.value.comparison) :
                       entry.value.comparison[n].key = other.key}}
    ELSE {}

HowToFallback(action) ==
    Fmt("I don't have specific information about how to {}. Please try asking about a specific financial term.",
        <<action>>)

\* the values an answer from the how_to field of the entry is put together
\* from: the action, the name, the how_to text, then the student_advice
HowToValues(action, entry) ==
    <<action, entry.key, entry.value.how_to>>
    \o (IF "student_advice" \in DOMAIN entry.value
        THEN <<entry.value.student_advice>> ELSE <<>>)

\* the values an answer from the definition of the entry is put together from
DefinitionValues(entry) ==
    <<entry.key, entry.value.definition>>
    \o (IF "student_context" \in DOMAIN entry.value
        THEN <<entry.value.student_context>> ELSE <<>>)

\* C21: answer_how_to_question takes as candidates the terms whose lowercased
\* name or alias holds the action, in the order of the glossary.  No
\* candidate: the how-to fallback.  Otherwise the first candidate that has a
\* how_to field answers (with its student_advice if it has one), also when
\* an earlier candidate has none; when no candidate has how_to, the first
\* candidate's definition answers (with its student_context if it has one).
C21_HowToAnswer ==
    Called("answer_how_to_question") =>
        LET action == dispatch.args[1]
            kb == knowledge_base
            answer == result.returned
            candidates == StatedMatches(action, kb)
            guides == {i \in candidates : "how_to" \in DOMAIN kb[i].value}
        IN  /\ candidates = {} => answer = HowToFallback(action)
            /\ \A i \in guides :
                  (\A j \in guides : i <= j)
                  => /\ answer.args = HowToValues(action, kb[i])
                     /\ answer # HowToFallback(action)
            /\ \A i \in candidates :
                  (guides = {} /\ \A j \in candidates : i <= j)
                  => /\ answer.args = DefinitionValues(kb[i])
                     /\ answer # HowToFallback(action)

\* the first candidate for 'credit', Credit Report, has no how_to: the
\* second, Credit Score, answers
C21_Witness ==
    /\ Called("answer_how_to_question")
    /\ dispatch.args[1] = <<"c", "r", "e", "d", "i", "t">>
    /\ knowledge_base = <<CreditReport, CreditScore>>
    /\ result.returned.args
         = <<<<"c", "r", "e", "d", "i", "t">>, CreditScore.key, CreditScore.value.how_to,
             CreditScore.value.student_advice>>

(***************************************************************************)
(* The general answer as section 4.5 words it.                             *)
(***************************************************************************)
\* the question is lowercase letters and single spaces only, so that its
\* tokens are its words of three letters or more
PlainQuestion(q) ==
    /\ \A i \in 1..Len(q) : q[i] \in LowerSet \/ q[i] = " "
    /\ \A i \in 1..(Len(q) - 1) : ~(q[i] = " " /\ q[i + 1] = " ")

\* the (first, last) positions of the words of a plain question
StatedTokenSpans(q) ==
    {span \in (1..Len(q)) \X (1..Len(q)) :
        /\ span[1] + 2 <= span[2]
        /\ \A i \in span[1]..span[2] : q[i] # " "
        /\ span[1] = 1 \/ q[span[1] - 1] = " "
        /\ span[2] = Len(q) \/ q[span[2] + 1] = " "}

\* 3 for the name, 2 for any alias, 1 for the definition, per token
StatedTokenScore(token, entry) ==
    (IF In(token, Lower(entry.key)) THEN 3 ELSE 0)
    + (IF \E a \in 1..Len(StatedAliases(entry)) : In(token, Lower(StatedAliases(entry)[a]))
       THEN 2 ELSE 0)
    + (IF In(token, Lower(entry.value.definition)) THEN 1 ELSE 0)

RECURSIVE SumOver(_, _, _)
SumOver(spans, q, entry) ==
    IF spans = {} THEN 0
    ELSE LET span == CHOOSE s \in spans : TRUE
         IN  StatedTokenScore(SubSeq(q, span[1], span[2]), entry)
             + SumOver(spans \ {span}, q, entry)

StatedScore(q, entry) == SumOver(StatedTokenSpans(q), q, entry)

\* the names at ranks 2 and 3: every other scoring term when there are at
\* most three, none of them ahead of a term with a higher score
RanksTwoToThree(names, q, kb, best) ==
    LET others == {i \in 1..Len(kb) : i # best /\ StatedScore(q, kb[i]) > 0}
    IN  \E order \in SeqsUpTo(others, 2) :
           /\ Len(order) = (IF Cardinality(others) < 2 THEN Cardinality(others) ELSE 2)
           /\ \A a, b \in 1..Len(order) : a # b => order[a] # order[b]
           /\ \A a, b \in 1..Len(order) :
                 a < b => StatedScore(q, kb[order[a]]) >= StatedScore(q, kb[order[b]])
           /\ \A i \in others :
                 (\A a \in 1..Len(order) : order[a] # i)
                 => \A a \in 1..Len(order) :
                       StatedScore(q, kb[order[a]]) >= StatedScore(q, kb[i])
           /\ names = Join(<<",", " ">>, [a \in 1..Len(order) |-> kb[order[a]].key])

\* C22: answer_general_question scores a term, per token of the question,
\* 3 for the name, 2 for any alias (once, however many aliases hold the
\* token) and 1 for the definition.  No term scores: the "not enough
\* information" string.  Otherwise the answer is from a term of the highest
\* score, and the "also interested" list naming ranks 2 and 3 follows
\* exactly when two or more terms score.
C22_ScoreAsStated ==
    (Called("answer_general_question") /\ PlainQuestion(dispatch.args[1])) =>
        LET q == dispatch.args[1]
            kb == knowledge_base
            answer == result.returned
            scoring == {i \in 1..Len(kb) : StatedScore(q, kb[i]) > 0}
        IN  /\ scoring = {} => answer = NotEnoughInformation
            /\ scoring # {} =>
                 \E best \in scoring :
                    /\ \A i \in scoring : StatedScore(q, kb[i]) <= StatedScore(q, kb[best])
                    /\ SubSeq(answer.args, 1, Len(DefinitionValues(kb[best])))
                         = DefinitionValues(kb[best])
                    /\ IF Cardinality(scoring) >= 2
                       THEN /\ Len(answer.args) = Len(DefinitionValues(kb[best])) + 1
                            /\ RanksTwoToThree(answer.args[Len(answer.args)], q, kb, best)
                       ELSE Len(answer.args) = Len(DefinitionValues(kb[best]))

\* the name is at an earlier rank of the answer than the other name: it is
\* the term answered from, or both are in the "also interested" list in
\* this order
RankedAhead(answer, name, other) ==
    /\ answer.args[1] # other
    /\ \/ answer.args[1] = name
       \/ answer.args[Len(answer.args)] = name \o <<",", " ">> \o other

\* C23: for a question of one token, a term whose name holds the token is
\* ranked ahead of a term that holds it in its definition only, whichever
\* of the two comes first in the glossary.
C23_NameOutranksDefinition ==
    (Called("answer_general_question") /\ PlainQuestion(dispatch.args[1])) =>
        LET q == dispatch.args[1]
            kb == knowledge_base
            answer == result.returned
        IN  (Len(q) >= 3 /\ \A i \in 1..Len(q) : q[i] # " ") =>
                \A i, j \in 1..Len(kb) :
                    ( /\ In(q, Lower(kb[i].key))
                      /\ ~In(q, Lower(kb[j].key))
                      /\ \A a \in 1..Len(StatedAliases(kb[j])) :
                            ~In(q, Lower(StatedAliases(kb[j])[a]))
                      /\ In(q, Lower(kb[j].value.definition)) )
                    => RankedAhead(answer, kb[i].key, kb[j].key)

\* 'debt' is in the definition of Credit Score, the first term, and in the
\* name of Debt, the second: Debt answers, Credit Score is listed after it
C23_Witness ==
    /\ Called("answer_general_question")
    /\ dispatch.args[1] = <<"d", "e", "b", "t">>
    /\ knowledge_base = <<CreditScore, Debt>>
    /\ result.returned.args[1] = Debt.key
    /\ result.returned.args[Len(result.returned.args)] = CreditScore.key

(***************************************************************************)
(* The empty glossary.                                                     *)
(***************************************************************************)
RecommendationFallback(action) ==
    Fmt("I don't have specific recommendations about {}. Please try asking about a specific financial term.",
        <<action>>)

CalculationFallback(calculation) ==
    Fmt("I don't have specific calculation information about {}. Please try asking about a specific financial term.",
        <<calculation>>)

\* the fallback sentence of an intent, naming the phrase of the question
\* (of a comparison, the first term)
FallbackOf(call) ==
    CASE call.handler = "answer_definition_question" -> DefinitionFallback(call.args[1])
      [] call.handler = "answer_comparison_question" -> ComparisonMissing(call.args[1])
      [] call.handler = "answer_how_to_question" -> HowToFallback(call.args[1])
      [] call.handler = "answer_recommendation_question" -> RecommendationFallback(call.args[1])
      [] call.handler = "answer_calculation_question" -> CalculationFallback(call.args[1])
      [] call.handler = "answer_general_question" -> NotEnoughInformation

\* C24: with an empty glossary, every question put to process_question is
\* answered with the "not enough information" string of the General intent.
C24_AsStated ==
    (Processed /\ knowledge_base = <<>>) => result.returned = NotEnoughInformation

\* C24, amended: with an empty glossary, every question is answered with the
\* fallback sentence of the intent it is classified as; that is the "not
\* enough information" string exactly for the General intent.
C24_Amended ==
    (Processed /\ knowledge_base = <<>>) =>
        /\ result.returned = FallbackOf(dispatch)
        /\ result.returned = NotEnoughInformation
           <=> dispatch.handler = "answer_general_question"

\* a calculation question with an empty glossary
C24_Witness ==
    /\ Processed /\ knowledge_base = <<>>
    /\ question = <<"c", "a", "l", "c", "u", "l", "a", "t", "e", " ", "b", "u", "d", "g", "e", "t", "?">>
    /\ dispatch = Call("answer_calculation_question", <<<<"b", "u", "d", "g", "e", "t">>>>)
    /\ result.returned = CalculationFallback(<<"b", "u", "d", "g", "e", "t">>)

(***************************************************************************)
(* The budget store as section 2 words its contract.                       *)
(***************************************************************************)
\* the stored expense lines of a budget, in the order of the table
StoredExpenses(store, id) ==
    LET rows == SelectSeq(store.expenses, LAMBDA row : row.budget_id = id)
    IN  [i \in 1..Len(rows) |-> [category |-> rows[i].category, amount |-> rows[i].amount]]

\* the stored income sources of a budget, in the order of the table
StoredIncomeSources(store, id) ==
    LET rows == SelectSeq(store.income_sources, LAMBDA row : row.budget_id = id)
    IN  [i \in 1..Len(rows) |-> [source |-> rows[i].source, amount |-> rows[i].amount]]

\* C25: Budget.save is atomic and an update replaces the child rows.  After
\* a save that returned, of a budget that had an id, the stored expense rows
\* and income-source rows of the budget are the object's expenses and
\* income_sources, each once; after a save that raised, the stored budgets,
\* expenses and income sources are what they were.
C25_SaveAtomic ==
    [][ (dispatch.handler = "Budget.save" /\ result = NotRun /\ result' # NotRun) =>
          LET self == dispatch.args[1]
          IN  /\ result' = Raised => db' = db
              /\ (result' # Raised /\ self.id # NoId) =>
                    /\ StoredExpenses(db', self.id) = self.expenses
                    /\ StoredIncomeSources(db', self.id) = self.income_sources
                    /\ \E r \in 1..Len(db'.budgets) :
                          /\ db'.budgets[r].id = self.id
                          /\ db'.budgets[r].income = self.income
                          /\ db'.budgets[r].savings = self.savings
                    /\ Len(db'.budgets) = Len(db.budgets) ]_vars

\* budget 1, stored with two expense lines before budget 2, was saved with
\* one other line: its one row now follows the row of budget 2
C25_Witness ==
    /\ dispatch.handler = "Budget.save"
    /\ dispatch.args[1].id = 1
    /\ result = Returned(1)
    /\ Len(db.budgets) = 2
    /\ db.expenses = << [budget_id |-> 2, category |-> "Housing", amount |-> 20],
                        [budget_id |-> 1, category |-> "Housing", amount |-> 20] >>
    /\ db.income_sources = <<>>

BackedOut(call) ==
    LET prompts == call.args[2]
    IN  IF call.handler = "create_update_budget"
        THEN \/ prompts.update # Returned(TRUE)
             \/ \E i \in 1..Len(prompts.income) : prompts.income[i] = None
             \/ prompts.savings = None
             \/ \E i \in 1..Len(prompts.expenses) : prompts.expenses[i] = None
        ELSE \/ prompts.category = Len(EXPENSE_CATEGORIES) + 1
             \/ prompts.amount = None
             \/ prompts.choice = 3

\* C27: in create_update_budget and add_expense, when a prompt returns None
\* or the update is declined, the call saves nothing: the budgets, their
\* expenses and their income sources are what they were before the call.
C27_BackOutSavesNothing ==
    [][BackedOut(dispatch') => db' = db]_vars

\* the first user, whose budget holds a Housing line, picks Housing, gives
\* an amount and goes back at the choice between adding and replacing
C27_Witness ==
    /\ dispatch = Call("add_expense",
                       <<1, [category |-> 1, amount |-> Returned(2), choice |-> 3]>>)
    /\ \E r \in 1..Len(db.budgets) :
          /\ db.budgets[r].user_id = 1
          /\ \E e \in 1..Len(db.expenses) :
                /\ db.expenses[e].budget_id = db.budgets[r].id
                /\ db.expenses[e].category = "Housing"
                /\ db.expenses[e].amount = 1

\* the ids of the budgets the store holds for a user
StoredBudgetIds(store, user_id) ==
    {store.budgets[r].id : r \in {o \in 1..Len(store.budgets) :
                                     store.budgets[o].user_id = user_id}}

\* the number of budget rows the store holds for a user
StoredBudgetCount(store, user_id) ==
    Cardinality({r \in 1..Len(store.budgets) : store.budgets[r].user_id = user_id})

\* C28: after any sequence of create_update_budget and add_expense calls the
\* store holds at most one budget for each user: a budget is inserted only
\* for a user who has none, and the budget of a user who has one keeps its
\* id through every update.
C28_OneBudgetPerUser ==
    [][\A user_id \in UserIds :
          /\ StoredBudgetCount(db', user_id) <= 1
          /\ StoredBudgetIds(db, user_id) # {}
             => StoredBudgetIds(db', user_id) = StoredBudgetIds(db, user_id)
          /\ dispatch'.handler = "add_expense" => Len(db'.budgets) = Len(db.budgets)
      ]_vars

\* the second user's budget was made first and the first user's after it;
\* the second user's has been saved again since: its rows come last
C28_Witness ==
    /\ Len(db.budgets) = 2
    /\ db.budgets[1].user_id = 2 /\ db.budgets[1].id = 1
    /\ db.budgets[2].user_id = 1 /\ db.budgets[2].id = 2
    /\ Len(db.income_sources) = 2
    /\ db.income_sources[1].budget_id = 2 /\ db.income_sources[2].budget_id = 1
    /\ dispatch = Call("create_update_budget", <<2, PlainPrompts>>)

\* the expense lines the store holds for a budget, in rowid order
StoredLines(store, budget_id) ==
    LET Held[i \in 0..Len(store.expenses)] ==
            IF i = 0 THEN <<>>
            ELSE IF store.expenses[i].budget_id = budget_id
            THEN Append(Held[i - 1], [category |-> store.expenses[i].category,
                                      amount |-> store.expenses[i].amount])
            ELSE Held[i - 1]
    IN  Held[Len(store.expenses)]

\* the lines have pairwise distinct categories and amounts above zero
DistinctAndPositive(lines) ==
    /\ \A i \in 1..Len(lines) : \A j \in 1..Len(lines) :
          i # j => lines[i].category # lines[j].category
    /\ \A i \in 1..Len(lines) : lines[i].amount > 0

\* what an add_expense that saved has done to the lines
AddedOrReplaced(before, after, prompts) ==
    LET picked == EXPENSE_CATEGORIES[prompts.category]
        there == {i \in 1..Len(before) : before[i].category = picked}
    IN  IF there # {}
        THEN /\ Len(after) = Len(before)
             /\ \A i \in 1..Len(before) :
                   /\ after[i].category = before[i].category
                   /\ after[i].amount =
                         IF i \notin there THEN before[i].amount
                         ELSE IF prompts.choice = 1
                         THEN before[i].amount + prompts.amount.returned
                         ELSE prompts.amount.returned
        ELSE after = Append(before, [category |-> picked,
                                     amount |-> prompts.amount.returned])

\* C29: after any sequence of create_update_budget and add_expense calls the
\* expense lines of every stored budget have pairwise distinct categories
\* and amounts above zero; an add_expense that saves adds the amount to the
\* line of the category or replaces it when the category is there, with no
\* second line, and appends one line when it is not.
C29_LinesDistinctPositive ==
    [][ /\ \A r \in 1..Len(db'.budgets) :
              DistinctAndPositive(StoredLines(db', db'.budgets[r].id))
        /\ \A r \in 1..Len(db.budgets) :
              ( /\ dispatch'.handler = "add_expense"
                /\ dispatch'.args[1] = db.budgets[r].user_id
                /\ ~BackedOut(dispatch')
                /\ result' = Returned(None) )
              => AddedOrReplaced(StoredLines(db, db.budgets[r].id),
                                 StoredLines(db', db.budgets[r].id),
                                 dispatch'.args[2])
      ]_vars

\* the first user, with lines for Housing and Miscellaneous, has added 1 to
\* Housing, which is now 2, and the two lines are the lines of the budget
C29_Witness ==
    /\ dispatch = Call("add_expense",
                       <<1, [category |-> 1, amount |-> Returned(1), choice |-> 1]>>)
    /\ result = Returned(None)
    /\ \E r \in 1..Len(db.budgets) :
          /\ db.budgets[r].user_id = 1
          /\ StoredLines(db, db.budgets[r].id) =
                <<[category |-> "Housing", amount |-> 2],
                  [category |-> "Miscellaneous", amount |-> 1]>>

(***************************************************************************)
(* The update of a goal's progress, as section 4 words it.                 *)
(***************************************************************************)
\* C30: update_goal_progress updates the goal the user selected.  When the
\* user picks the k-th entry of the list displayed and enters an amount,
\* the current_amount of the k-th goal becomes that amount and every other
\* goal of the user is as it was, also when two goals have the same title,
\* current amount and target amount.
C30_SelectedGoalUpdated ==
    [][ ( /\ dispatch'.handler = "update_goal_progress"
          /\ dispatch'.args[2].selection <= Len(dispatch'.args[3])
          /\ dispatch'.args[2].amount # None
          /\ screen' = <<"Goal '{}' updated successfully!">> )
        => \A r \in 1..Len(db.goals) :
              db.goals[r].user_id = dispatch'.args[1]
              => db'.goals[r].current_amount =
                    IF db.goals[r].id
                          = dispatch'.args[3][dispatch'.args[2].selection].id
                    THEN dispatch'.args[2].amount.returned
                    ELSE db.goals[r].current_amount
      ]_vars

====
